---- MODULE Spec2Model ----
(***************************************************************************)
(* BattleChain (src/game.rs): the entropy pool (a ring of committed seed   *)
(* batches), battle creation and the turn engine, as one state machine.    *)
(*                                                                         *)
(* Every instruction handler is an operator from the accounts it is given  *)
(* to a result record: res ("Ok" or the GameError it returns) and the      *)
(* accounts as the handler left them when it returned.  An action applies  *)
(* the handler and commits the accounts only when res = "Ok": an Anchor    *)
(* instruction that returns Err is not written back (Commit).              *)
(*                                                                         *)
(* Abstractions: identities and seeds are small integers; SHA-256 (hashv)  *)
(* is a fixed deterministic mixing function of the same five inputs, of    *)
(* reduced width; escrow transfers, events, bumps and last_refill_ts are   *)
(* left out.                                                               *)
(***************************************************************************)
EXTENDS Integers, Sequences, FiniteSets, TLC

\* ---- program constants (src/game.rs:38-43) ----
FP_SCALE == 1000000
MAX_TOTAL_MULTIPLIER_FP == 10000000
MAX_COMBO_STACK == 5
MAX_BATCHES == 8
MIN_ENTROPY_PER_TURN == 4
U16_MAX == 65535

\* ---- bounds of the model ----
MaxIndex == 11          \* SpecPool: refills keep start_index + count <= MaxIndex
DuelMaxIndex == 14      \* SpecDuel: the same limit
MaxTime == 2            \* the clock runs 0..MaxTime
MaxGap == 1             \* indices the refills may skip in all
ClockMaxTime == 4       \* SpecClock: the clock runs 0..ClockMaxTime
StreakMaxIndex == 54    \* SpecStreak: the same limit (one draw and thirteen turns)
FightMaxIndex == 42     \* SpecFight: the same limit as MaxIndex (one draw and ten turns)

\* ---- identities ----
P1 == 1
P2 == 2
Oracle == 3
Authority == 4
Eve == 5
Treasury == 6            \* the treasury's token account
NoKey == 0              \* Option<Pubkey>::None

Seeds == {1}
BattleIds == {1, 2}     \* two offer/request pairs, both P1 (creator) against P2
Slots == 0..(MAX_BATCHES - 1)
Stances == {"Balanced", "Aggressive", "Defensive", "Berserker", "Counter"}
Classes == {"Warrior", "Assassin", "Mage", "Tank", "Trickster"}

\* domain tags (user_seed byte strings) as numbers for the mixing function
TagFirstMover == 0
TagBase == 1
TagCrit == 2
TagDodge == 3
TagWild == 4

VARIABLES pool, battle, offer, character, progression, now, lastOp, issued, refilled, skipped,
          funds, parlay_pool, game_pool, single_bet, restake_pos, parlay_ticket, tokens, key0

\* the accounts of the prediction program, its token accounts, and the first
\* byte of the address Battle.player1 holds
predict == <<parlay_pool, game_pool, single_bet, restake_pos, parlay_ticket, tokens, key0>>

vars == <<pool, battle, offer, character, progression, now, lastOp, issued, refilled, skipped,
          funds, predict>>

Min(a, b) == IF a < b THEN a ELSE b
Max(a, b) == IF a > b THEN a ELSE b
SatSub(a, b) == IF a > b THEN a - b ELSE 0

\* mutant of Commit: what a failed handler had assigned is written back
CommitAlways(res, pre, post) == post

\* An Anchor instruction writes its accounts back only when the handler
\* returns Ok; an Err discards whatever the handler had already assigned.
Commit(res, pre, post) == IF res = "Ok" THEN post ELSE pre

\* ------------------------------------------------------------------------
\* Entropy pool
\* ------------------------------------------------------------------------
DefaultBatch == [seed |-> 0, start |-> 0, count |-> 0, consumed |-> 0]

create_entropy_pool ==
  [authority |-> Authority, vrf_oracle |-> Oracle, head |-> 0, tail |-> 0,
   total_available |-> 0, global_next_index |-> 0,
   batches |-> [i \in Slots |-> DefaultBatch]]

\* mutant of refill_seed_batch: no watermark check on start_index
refill_seed_batch_no_watermark(p, caller, seed, start_index, count) ==
  IF ~(caller = p.vrf_oracle \/ caller = p.authority)
    THEN [res |-> "UnauthorizedRefill", pool |-> p]
  ELSE IF ~(count > 0) THEN [res |-> "InvalidRange", pool |-> p]
  ELSE
    LET idx == p.tail % MAX_BATCHES
        q == [p EXCEPT !.batches[idx] = [seed |-> seed, start |-> start_index,
                                           count |-> count, consumed |-> 0],
                       !.tail = (p.tail + 1) % MAX_BATCHES,
                       !.total_available = p.total_available + count,
                       !.global_next_index = start_index + count]
    IN [res |-> "Ok", pool |-> q]

\* mutant of refill_seed_batch: the watermark advances by count from where it
\* was, not to start_index + count
refill_seed_batch_adds_count(p, caller, seed, start_index, count) ==
  IF ~(caller = p.vrf_oracle \/ caller = p.authority)
    THEN [res |-> "UnauthorizedRefill", pool |-> p]
  ELSE IF ~(count > 0) THEN [res |-> "InvalidRange", pool |-> p]
  ELSE IF ~(start_index >= p.global_next_index) THEN [res |-> "SeedReplay", pool |-> p]
  ELSE
    LET idx == p.tail % MAX_BATCHES
        q == [p EXCEPT !.batches[idx] = [seed |-> seed, start |-> start_index,
                                           count |-> count, consumed |-> 0],
                       !.tail = (p.tail + 1) % MAX_BATCHES,
                       !.total_available = p.total_available + count,
                       !.global_next_index = p.global_next_index + count]
    IN [res |-> "Ok", pool |-> q]

refill_seed_batch(p, caller, seed, start_index, count) ==
  IF ~(caller = p.vrf_oracle \/ caller = p.authority)
    THEN [res |-> "UnauthorizedRefill", pool |-> p]
  ELSE IF ~(count > 0) THEN [res |-> "InvalidRange", pool |-> p]
  ELSE IF ~(start_index >= p.global_next_index) THEN [res |-> "SeedReplay", pool |-> p]
  ELSE
    LET idx == p.tail % MAX_BATCHES
        q == [p EXCEPT !.batches[idx] = [seed |-> seed, start |-> start_index,
                                           count |-> count, consumed |-> 0],
                       !.tail = (p.tail + 1) % MAX_BATCHES,
                       !.total_available = p.total_available + count,
                       !.global_next_index = start_index + count]
    IN [res |-> "Ok", pool |-> q]

\* SHA-256 over (seed, offset LE, signer, user_seed, turn_number LE), first 8
\* bytes as an integer: a fixed mixing function of the same five inputs.
HASH_MOD == 65521
hashv(seed, offset, signer, user_seed, turn_number) ==
  LET x == (seed * 1009 + offset * 613 + signer * 389 + user_seed * 211
            + turn_number * 97 + 31) % 46337
  IN (x * x + 12345) % HASH_MOD

\* the `while` of consume: first slot from idx with unconsumed entries, or -1
\* when the scan is back at head
RECURSIVE FindBatch(_, _)
FindBatch(p, idx) ==
  IF p.batches[idx].count <= p.batches[idx].consumed
    THEN LET n == (idx + 1) % MAX_BATCHES
         IN IF n = p.head % MAX_BATCHES THEN -1 ELSE FindBatch(p, n)
    ELSE idx

NoDraw(res, p) == [res |-> res, val |-> 0, index |-> 0, seed |-> 0, pool |-> p]

\* mutant of consume_mixed_u64_return_index: min is not added to the reduced hash
consume_forgets_min(p, signer, user_seed, turn_number, min, max) ==
  IF ~(max >= min) THEN NoDraw("InvalidRange", p)
  ELSE IF ~(p.total_available > 0) THEN NoDraw("NoEntropyAvailable", p)
  ELSE
    LET idx == FindBatch(p, p.head % MAX_BATCHES)
    IN IF idx = -1 THEN NoDraw("NoEntropyAvailable", p)
       ELSE
         LET batch == p.batches[idx]
             offset == batch.start + batch.consumed
             h == hashv(batch.seed, offset, signer, user_seed, turn_number)
             range == max - min + 1
             val == h % range
             consumed == batch.consumed + 1
             q == [p EXCEPT !.batches[idx].consumed = consumed,
                            !.total_available = SatSub(p.total_available, 1),
                            !.head = IF consumed >= batch.count
                                       THEN (p.head + 1) % MAX_BATCHES
                                       ELSE p.head]
         IN [res |-> "Ok", val |-> val, index |-> offset, seed |-> batch.seed, pool |-> q]

\* mutant of consume_mixed_u64_return_index: the hash takes the batch's consumed
\* counter, not the absolute offset
consume_hashes_consumed(p, signer, user_seed, turn_number, min, max) ==
  IF ~(max >= min) THEN NoDraw("InvalidRange", p)
  ELSE IF ~(p.total_available > 0) THEN NoDraw("NoEntropyAvailable", p)
  ELSE
    LET idx == FindBatch(p, p.head % MAX_BATCHES)
    IN IF idx = -1 THEN NoDraw("NoEntropyAvailable", p)
       ELSE
         LET batch == p.batches[idx]
             offset == batch.start + batch.consumed
             h == hashv(batch.seed, batch.consumed, signer, user_seed, turn_number)
             range == max - min + 1
             val == min + (h % range)
             consumed == batch.consumed + 1
             q == [p EXCEPT !.batches[idx].consumed = consumed,
                            !.total_available = SatSub(p.total_available, 1),
                            !.head = IF consumed >= batch.count
                                       THEN (p.head + 1) % MAX_BATCHES
                                       ELSE p.head]
         IN [res |-> "Ok", val |-> val, index |-> offset, seed |-> batch.seed, pool |-> q]

consume_mixed_u64_return_index(p, signer, user_seed, turn_number, min, max) ==
  IF ~(max >= min) THEN NoDraw("InvalidRange", p)
  ELSE IF ~(p.total_available > 0) THEN NoDraw("NoEntropyAvailable", p)
  ELSE
    LET idx == FindBatch(p, p.head % MAX_BATCHES)
    IN IF idx = -1 THEN NoDraw("NoEntropyAvailable", p)
       ELSE
         LET batch == p.batches[idx]
             offset == batch.start + batch.consumed
             h == hashv(batch.seed, offset, signer, user_seed, turn_number)
             range == max - min + 1
             val == min + (h % range)
             consumed == batch.consumed + 1
             q == [p EXCEPT !.batches[idx].consumed = consumed,
                            !.total_available = SatSub(p.total_available, 1),
                            !.head = IF consumed >= batch.count
                                       THEN (p.head + 1) % MAX_BATCHES
                                       ELSE p.head]
         IN [res |-> "Ok", val |-> val, index |-> offset, seed |-> batch.seed, pool |-> q]

\* ------------------------------------------------------------------------
\* Characters and progression
\* ------------------------------------------------------------------------
create_character_from_nft(base_class) ==
  LET stats == CASE base_class = "Warrior"   -> <<120, 8, 15, 1500>>
                 [] base_class = "Assassin"  -> <<90, 12, 20, 3500>>
                 [] base_class = "Mage"      -> <<80, 10, 18, 2000>>
                 [] base_class = "Tank"      -> <<150, 6, 12, 1000>>
                 [] base_class = "Trickster" -> <<100, 8, 16, 2500>>
  IN [base_class |-> base_class, max_hp |-> stats[1], current_hp |-> stats[1],
      base_damage_min |-> stats[2], base_damage_max |-> stats[3],
      crit_bps |-> stats[4],
      \* never assigned by the program: zero of a fresh account
      crit_multiplier_fp |-> 0, dodge_bps |-> 0,
      defense |-> 0, special_cooldown |-> 0, last_damage |-> 0, combo_count |-> 0]

NewProgression == [xp |-> 0, level |-> 1]

\* ------------------------------------------------------------------------
\* Battle creation
\* ------------------------------------------------------------------------
NoBattle ==
  [state |-> "NoAccount", player1 |-> NoKey, player2 |-> NoKey, current_turn |-> 0,
   turn_number |-> 0, player1_health |-> 0, player2_health |-> 0,
   player1_stance |-> "Balanced", player2_stance |-> "Balanced",
   inactivity_timeout |-> 0, last_action_ts |-> 0, winner |-> NoKey,
   player1_dot_damage |-> 0, player2_dot_damage |-> 0,
   player1_dot_turns |-> 0, player2_dot_turns |-> 0,
   player1_reflection |-> 0, player2_reflection |-> 0,
   player1_miss_count |-> 0, player2_miss_count |-> 0,
   last_entropy_index |-> 0]

\* Config.inactivity_timeout, in clock ticks (the program's default is 300 s)
ConfigInactivityTimeout == 1

\* mutant of first_mover: player 1 always moves first
first_mover_player1(choice) == 1

\* line 503: the side that moves first, from the first-mover draw
first_mover(choice) == IF choice = 0 THEN 1 ELSE 2

\* o: the offer with its (single) join request; result: the battle, offer and pool
approve_challenger(o, p, caller, clock) ==
  LET fail(res) == [res |-> res, offer |-> o, pool |-> p, battle |-> NoBattle, draws |-> <<>>]
  IN
  IF ~o.is_active THEN fail("OfferNotActive")
  ELSE IF ~(o.status = "Pending") THEN fail("InvalidRequestState")
  ELSE IF ~(caller = o.creator) THEN fail("Unauthorized")
  ELSE
    LET b0 == [NoBattle EXCEPT !.player1 = o.creator, !.player2 = o.challenger,
                               !.current_turn = 0, !.turn_number = 0,
                               !.player1_health = 100, !.player2_health = 100,
                               !.state = "Active",
                               !.inactivity_timeout =
                                   IF o.inactivity_timeout > 0 THEN o.inactivity_timeout
                                   ELSE ConfigInactivityTimeout,
                               !.last_action_ts = clock,
                               !.last_entropy_index = 0]
        o1 == [o EXCEPT !.status = "Approved", !.is_active = FALSE]
    IN
    IF ~(p.total_available >= 1)
      THEN [res |-> "NoEntropyAvailable", offer |-> o1, pool |-> p, battle |-> b0, draws |-> <<>>]
    ELSE
      LET d == consume_mixed_u64_return_index(p, caller, TagFirstMover, b0.turn_number, 0, 1)
      IN
      IF d.res # "Ok"
        THEN [res |-> d.res, offer |-> o1, pool |-> d.pool, battle |-> b0, draws |-> <<>>]
      ELSE
        LET dr == <<[index |-> d.index, val |-> d.val, min |-> 0, max |-> 1]>>
        IN
        IF ~(d.index > b0.last_entropy_index)
          THEN [res |-> "SeedReplay", offer |-> o1, pool |-> d.pool, battle |-> b0, draws |-> dr]
        ELSE [res |-> "Ok", offer |-> o1, pool |-> d.pool,
              battle |-> [b0 EXCEPT !.last_entropy_index = d.index,
                                    !.current_turn = first_mover(d.val)],
              draws |-> dr]

\* ------------------------------------------------------------------------
\* Fixed-point helpers and stances
\* ------------------------------------------------------------------------
\* floor(value_fp * mul_fp / FP_SCALE).  The code multiplies in u128, which
\* cannot overflow here (value_fp < 2^42, mul_fp < 2^22), so MathOverflow is
\* never returned; the product is split in thousands so that no
\* intermediate value exceeds 32 bits: with v = vq*1000 + vr and m = mq*1000 + mr,
\* v*m = vq*mq*10^6 + (vq*mr + vr*mq)*10^3 + vr*mr.
mul_fp_checked(value_fp, mul_fp) ==
  LET vq == value_fp \div 1000
      vr == value_fp % 1000
      mq == mul_fp \div 1000
      mr == mul_fp % 1000
  IN vq * mq + ((vq * mr + vr * mq + ((vr * mr) \div 1000)) \div 1000)

\* clamp at MAX_TOTAL_MULTIPLIER_FP * FP_SCALE, then fp_to_u64_clamped: the
\* clamped value divided by FP_SCALE is MAX_TOTAL_MULTIPLIER_FP
clamp_to_u64(damage_fp) ==
  LET q == damage_fp \div FP_SCALE
      r == damage_fp % FP_SCALE
  IN IF q > MAX_TOTAL_MULTIPLIER_FP \/ (q = MAX_TOTAL_MULTIPLIER_FP /\ r > 0)
       THEN MAX_TOTAL_MULTIPLIER_FP
       ELSE q

\* attacker_fp, defender_fp, self_damage_bps, counter_bps
stance_multipliers(att, def) ==
  LET att_fp == CASE att = "Aggressive" -> (FP_SCALE * 130) \div 100
                  [] att = "Defensive"  -> (FP_SCALE * 70) \div 100
                  [] att = "Berserker"  -> (FP_SCALE * 200) \div 100
                  [] att = "Counter"    -> (FP_SCALE * 90) \div 100
                  [] OTHER              -> FP_SCALE
      self_bps == IF att = "Berserker" THEN 2500 ELSE 0
      def_fp == CASE def = "Defensive"  -> (FP_SCALE * 50) \div 100
                  [] def = "Aggressive" -> (FP_SCALE * 150) \div 100
                  [] OTHER              -> FP_SCALE
      counter_bps == IF def = "Counter" THEN 4000 ELSE 0
  IN [att_fp |-> att_fp, def_fp |-> def_fp, self_bps |-> self_bps, counter_bps |-> counter_bps]

next_level_xp(level) == 100 * (level * level)

\* the loop of level_up_if_needed; pc = [prog, ch]
RECURSIVE level_up_if_needed(_)
level_up_if_needed(pc) ==
  LET need == next_level_xp(pc.prog.level)
  IN IF pc.prog.xp >= need
       THEN level_up_if_needed(
              [prog |-> [xp |-> SatSub(pc.prog.xp, need),
                         level |-> Min(pc.prog.level + 1, U16_MAX)],
               ch |-> [pc.ch EXCEPT
                         !.max_hp = pc.ch.max_hp + Max(pc.ch.max_hp \div 20, 1),
                         !.current_hp = pc.ch.max_hp + Max(pc.ch.max_hp \div 20, 1),
                         !.base_damage_min =
                             Min(pc.ch.base_damage_min + Max(pc.ch.base_damage_min \div 10, 1), U16_MAX),
                         !.base_damage_max =
                             Min(pc.ch.base_damage_max + Max(pc.ch.base_damage_max \div 10, 1), U16_MAX)]])
       ELSE pc

\* ------------------------------------------------------------------------
\* execute_turn, in the order of the code.  A turn state s carries res, the
\* accounts (pool, battle, att, def, aprog, dprog), the draws taken and the
\* damage_dealt and is_crit of the TurnResolved event; once res is an error
\* the remaining stages leave s as it is.
\* ------------------------------------------------------------------------
\* mutant of turn_begin: whose turn it is is not checked
turn_begin_any_turn(s, signer, chosen_stance, clock) ==
  IF ~(s.battle.state = "Active") THEN [s EXCEPT !.res = "InvalidBattleState"]
  ELSE IF signer # s.battle.player1 /\ signer # s.battle.player2
    THEN [s EXCEPT !.res = "Unauthorized"]
  ELSE
    LET is_player1 == (signer = s.battle.player1)
    IN IF ~(s.pool.total_available >= MIN_ENTROPY_PER_TURN)
         THEN [s EXCEPT !.res = "NoEntropyAvailable"]
       ELSE IF is_player1
         THEN [s EXCEPT !.battle.last_action_ts = clock, !.battle.player1_stance = chosen_stance]
         ELSE [s EXCEPT !.battle.last_action_ts = clock, !.battle.player2_stance = chosen_stance]

\* lines 523-536: state, signer and turn checks, entropy precondition,
\* last_action_ts and the attacker's stance
turn_begin(s, signer, chosen_stance, clock) ==
  IF ~(s.battle.state = "Active") THEN [s EXCEPT !.res = "InvalidBattleState"]
  ELSE IF signer # s.battle.player1 /\ signer # s.battle.player2
    THEN [s EXCEPT !.res = "Unauthorized"]
  ELSE
    LET is_player1 == (signer = s.battle.player1)
    IN IF ~(s.battle.current_turn = (IF is_player1 THEN 1 ELSE 2))
         THEN [s EXCEPT !.res = "NotYourTurn"]
       ELSE IF ~(s.pool.total_available >= MIN_ENTROPY_PER_TURN)
         THEN [s EXCEPT !.res = "NoEntropyAvailable"]
       ELSE IF is_player1
         THEN [s EXCEPT !.battle.last_action_ts = clock, !.battle.player1_stance = chosen_stance]
         ELSE [s EXCEPT !.battle.last_action_ts = clock, !.battle.player2_stance = chosen_stance]

\* mutant of turn_draw: the index is not compared with last_entropy_index
turn_draw_unchecked(s, signer, user_seed, min, max) ==
  IF s.res # "Ok" THEN s
  ELSE
    LET d == consume_mixed_u64_return_index(s.pool, signer, user_seed, s.battle.turn_number, min, max)
    IN IF d.res # "Ok" THEN [s EXCEPT !.res = d.res]
       ELSE
         LET s1 == [s EXCEPT !.pool = d.pool,
                             !.draws = Append(@, [index |-> d.index, val |-> d.val,
                                                  min |-> min, max |-> max])]
         IN [s1 EXCEPT !.battle.last_entropy_index = d.index]

\* one bound draw: consume, then require index > last_entropy_index
turn_draw(s, signer, user_seed, min, max) ==
  IF s.res # "Ok" THEN s
  ELSE
    LET d == consume_mixed_u64_return_index(s.pool, signer, user_seed, s.battle.turn_number, min, max)
    IN IF d.res # "Ok" THEN [s EXCEPT !.res = d.res]
       ELSE
         LET s1 == [s EXCEPT !.pool = d.pool,
                             !.draws = Append(@, [index |-> d.index, val |-> d.val,
                                                  min |-> min, max |-> max])]
         IN IF ~(d.index > s.battle.last_entropy_index)
              THEN [s1 EXCEPT !.res = "SeedReplay"]
              ELSE [s1 EXCEPT !.battle.last_entropy_index = d.index]

\* mutant of turn_draws: the wildcard draw is left out
turn_draws_no_wildcard(s, signer) ==
  LET s1 == turn_draw(s, signer, TagBase, s.att.base_damage_min, s.att.base_damage_max)
      s2 == turn_draw(s1, signer, TagCrit, 0, 9999)
  IN turn_draw(s2, signer, TagDodge, 0, 9999)

\* lines 538-561: base, crit, dodge and wildcard draws
turn_draws(s, signer) ==
  LET s1 == turn_draw(s, signer, TagBase, s.att.base_damage_min, s.att.base_damage_max)
      s2 == turn_draw(s1, signer, TagCrit, 0, 9999)
      s3 == turn_draw(s2, signer, TagDodge, 0, 9999)
  IN turn_draw(s3, signer, TagWild, 0, 9999)

\* the class special of lines 587-593 applied to [s, damage_fp]
special_effect(s, is_player1, damage_fp) ==
  LET cls == s.att.base_class
  IN CASE cls = "Warrior" ->
            [s |-> [s EXCEPT !.att.special_cooldown = 3],
             damage_fp |-> mul_fp_checked(damage_fp, FP_SCALE * 3)]
       [] cls = "Assassin" ->
            [s |-> [s EXCEPT !.att.special_cooldown = 4],
             damage_fp |-> mul_fp_checked(damage_fp, FP_SCALE * 3)]
       [] cls = "Mage" ->
            [s |-> IF is_player1
                     THEN [s EXCEPT !.battle.player2_dot_damage = @ + 5,
                                    !.battle.player2_dot_turns = Min(@ + 3, 255),
                                    !.att.special_cooldown = 3]
                     ELSE [s EXCEPT !.battle.player1_dot_damage = @ + 5,
                                    !.battle.player1_dot_turns = Min(@ + 3, 255),
                                    !.att.special_cooldown = 3],
             damage_fp |-> damage_fp]
       [] cls = "Tank" ->
            [s |-> IF is_player1
                     THEN [s EXCEPT !.battle.player1_reflection = Min(@ + 50, U16_MAX),
                                    !.att.special_cooldown = 4]
                     ELSE [s EXCEPT !.battle.player2_reflection = Min(@ + 50, U16_MAX),
                                    !.att.special_cooldown = 4],
             damage_fp |-> damage_fp]
       [] cls = "Trickster" ->
            [s |-> [s EXCEPT !.att.special_cooldown = 2],
             damage_fp |-> mul_fp_checked(damage_fp, FP_SCALE * 2)]

\* mutant of base_with_level: two more damage for every level, the first too
base_with_level_from_zero(base, level) == base + level * 2

\* line 545: base_u128, the draw plus two for every level above the first
base_with_level(base, level) == base + SatSub(level, 1) * 2

\* mutant of combo_stack: the stack is not capped
combo_stack_uncapped(att, base) ==
  IF att.last_damage = Min(base, U16_MAX) THEN att.combo_count + 1 ELSE 0

\* lines 573-581: the attacker's combo_count after a base draw
combo_stack(att, base) ==
  IF att.last_damage = Min(base, U16_MAX) THEN Min(att.combo_count + 1, MAX_COMBO_STACK) ELSE 0

\* mutant of special_ready: the cooldown is not looked at
special_ready_always(att) == TRUE

\* line 586: the requirement on a turn that uses the special
special_ready(att) == att.special_cooldown = 0

\* lines 545, 551, 563-617: the damage pipeline; adds final_damage and is_crit
turn_pipeline(s, is_player1, use_special) ==
  IF s.res # "Ok" THEN [s |-> s, final_damage |-> 0, is_crit |-> FALSE]
  ELSE
    LET base == s.draws[1].val
        crit_roll == s.draws[2].val
        dodge_roll == s.draws[3].val
        base_u128 == base_with_level(base, s.aprog.level)
        is_crit == crit_roll < s.att.crit_bps
        fp0 == base_u128 * FP_SCALE
        fp1 == IF is_crit
                 THEN mul_fp_checked(fp0, Min(2000000, s.att.crit_multiplier_fp))
                 ELSE fp0
        hit == (s.att.last_damage = Min(base, U16_MAX))
        combo == combo_stack(s.att, base)
        fp2 == IF hit THEN mul_fp_checked(fp1, FP_SCALE + 150000 * combo) ELSE fp1
        sc == [s EXCEPT !.att.combo_count = combo, !.att.last_damage = Min(base, U16_MAX)]
    IN
    IF use_special /\ ~special_ready(sc.att)
      THEN [s |-> [sc EXCEPT !.res = "SpecialOnCooldown"], final_damage |-> 0, is_crit |-> is_crit]
    ELSE
      LET sp == IF use_special THEN special_effect(sc, is_player1, fp2)
                ELSE [s |-> sc, damage_fp |-> fp2]
          ss == sp.s
          m == stance_multipliers(
                 IF is_player1 THEN ss.battle.player1_stance ELSE ss.battle.player2_stance,
                 IF is_player1 THEN ss.battle.player2_stance ELSE ss.battle.player1_stance)
          fp3 == mul_fp_checked(mul_fp_checked(sp.damage_fp, m.att_fp), m.def_fp)
          fd0 == SatSub(clamp_to_u64(fp3), ss.def.defense)
          dodged == dodge_roll < ss.def.dodge_bps
          fd == IF dodged THEN 0 ELSE fd0
          sd == IF dodged
                  THEN IF is_player1
                         THEN [ss EXCEPT !.battle.player1_miss_count = Min(@ + 1, U16_MAX)]
                         ELSE [ss EXCEPT !.battle.player2_miss_count = Min(@ + 1, U16_MAX)]
                  ELSE ss
      IN [s |-> [sd EXCEPT !.damage_dealt = fd, !.is_crit = is_crit],
          final_damage |-> fd,
          is_crit |-> is_crit]

\* mutant of cooldown_tick: the turn leaves the cooldown as it is
cooldown_no_tick(cd) == cd

\* line 657: the cooldown tick that ends the attacker's turn
cooldown_tick(cd) == IF cd > 0 THEN SatSub(cd, 1) ELSE cd

\* mutant of turn_apply: each side effect is taken from what the one before
\* it left of the damage
turn_apply_compounding(s, is_player1, final_damage) ==
  IF s.res # "Ok" THEN s
  ELSE
    LET m == stance_multipliers(
               IF is_player1 THEN s.battle.player1_stance ELSE s.battle.player2_stance,
               IF is_player1 THEN s.battle.player2_stance ELSE s.battle.player1_stance)
        refl == IF is_player1 THEN s.battle.player1_reflection ELSE s.battle.player2_reflection
        reflected == IF refl > 0 /\ final_damage > 0 THEN (final_damage * refl) \div 100 ELSE 0
        left1 == SatSub(final_damage, reflected)
        counter == IF m.counter_bps > 0 /\ final_damage > 0
                     THEN (left1 * m.counter_bps) \div 10000 ELSE 0
        left2 == SatSub(left1, counter)
        selfd == IF m.self_bps > 0 THEN (left2 * m.self_bps) \div 10000 ELSE 0
        att_h == IF is_player1 THEN s.battle.player1_health ELSE s.battle.player2_health
        def_h == IF is_player1 THEN s.battle.player2_health ELSE s.battle.player1_health
        att_h1 == SatSub(SatSub(SatSub(att_h, reflected), counter), selfd)
        def_h1 == SatSub(def_h, final_damage)
        cd == cooldown_tick(s.att.special_cooldown)
    IN IF is_player1
         THEN [s EXCEPT !.battle.player2_health = def_h1, !.battle.player1_health = att_h1,
                        !.att.special_cooldown = cd]
         ELSE [s EXCEPT !.battle.player1_health = def_h1, !.battle.player2_health = att_h1,
                        !.att.special_cooldown = cd]

\* mutant of turn_apply: plain subtraction, a health can pass below 0
turn_apply_wrapping(s, is_player1, final_damage) ==
  IF s.res # "Ok" THEN s
  ELSE
    LET m == stance_multipliers(
               IF is_player1 THEN s.battle.player1_stance ELSE s.battle.player2_stance,
               IF is_player1 THEN s.battle.player2_stance ELSE s.battle.player1_stance)
        refl == IF is_player1 THEN s.battle.player1_reflection ELSE s.battle.player2_reflection
        reflected == IF refl > 0 /\ final_damage > 0 THEN (final_damage * refl) \div 100 ELSE 0
        counter == IF m.counter_bps > 0 /\ final_damage > 0
                     THEN (final_damage * m.counter_bps) \div 10000 ELSE 0
        selfd == IF m.self_bps > 0 THEN (final_damage * m.self_bps) \div 10000 ELSE 0
        att_h == IF is_player1 THEN s.battle.player1_health ELSE s.battle.player2_health
        def_h == IF is_player1 THEN s.battle.player2_health ELSE s.battle.player1_health
        att_h1 == att_h - reflected - counter - selfd
        def_h1 == def_h - final_damage
        cd == cooldown_tick(s.att.special_cooldown)
    IN IF is_player1
         THEN [s EXCEPT !.battle.player2_health = def_h1, !.battle.player1_health = att_h1,
                        !.att.special_cooldown = cd]
         ELSE [s EXCEPT !.battle.player1_health = def_h1, !.battle.player2_health = att_h1,
                        !.att.special_cooldown = cd]

\* lines 619-657: damage to the defender; reflection, counter and self-damage
\* to the attacker; cooldown tick
turn_apply(s, is_player1, final_damage) ==
  IF s.res # "Ok" THEN s
  ELSE
    LET m == stance_multipliers(
               IF is_player1 THEN s.battle.player1_stance ELSE s.battle.player2_stance,
               IF is_player1 THEN s.battle.player2_stance ELSE s.battle.player1_stance)
        refl == IF is_player1 THEN s.battle.player1_reflection ELSE s.battle.player2_reflection
        reflected == IF refl > 0 /\ final_damage > 0 THEN (final_damage * refl) \div 100 ELSE 0
        counter == IF m.counter_bps > 0 /\ final_damage > 0
                     THEN (final_damage * m.counter_bps) \div 10000 ELSE 0
        selfd == IF m.self_bps > 0 THEN (final_damage * m.self_bps) \div 10000 ELSE 0
        att_h == IF is_player1 THEN s.battle.player1_health ELSE s.battle.player2_health
        def_h == IF is_player1 THEN s.battle.player2_health ELSE s.battle.player1_health
        att_h1 == SatSub(SatSub(SatSub(att_h, reflected), counter), selfd)
        def_h1 == SatSub(def_h, final_damage)
        cd == cooldown_tick(s.att.special_cooldown)
    IN IF is_player1
         THEN [s EXCEPT !.battle.player2_health = def_h1, !.battle.player1_health = att_h1,
                        !.att.special_cooldown = cd]
         ELSE [s EXCEPT !.battle.player1_health = def_h1, !.battle.player2_health = att_h1,
                        !.att.special_cooldown = cd]

\* mutant of winner_of: equal healths give the win to player 1
winner_of_no_draw(bt) ==
  IF bt.player1_health >= bt.player2_health THEN bt.player1 ELSE bt.player2

\* line 661: winner_opt
winner_of(bt) ==
  IF bt.player1_health > bt.player2_health THEN bt.player1
  ELSE IF bt.player2_health > bt.player1_health THEN bt.player2
  ELSE NoKey

\* mutant of next_turn: the turn stays with the side that moved
next_turn_same(current_turn) == current_turn

\* line 687: the side that moves after current_turn
next_turn(current_turn) == IF current_turn = 1 THEN 2 ELSE 1

\* lines 659-690: death check, winner and XP, or the turn advance
turn_finish(s) ==
  IF s.res # "Ok" THEN s
  ELSE IF s.battle.player1_health = 0 \/ s.battle.player2_health = 0
    THEN
      LET winner_opt == winner_of(s.battle)
          sf == [s EXCEPT !.battle.state = "Finished", !.battle.winner = winner_opt]
      IN IF winner_opt # NoKey
           THEN IF winner_opt = s.battle.player1
                  THEN LET r == level_up_if_needed(
                                  [prog |-> [sf.aprog EXCEPT !.xp = @ + 100], ch |-> sf.att])
                       IN [sf EXCEPT !.aprog = r.prog, !.att = r.ch]
                  ELSE LET r == level_up_if_needed(
                                  [prog |-> [sf.dprog EXCEPT !.xp = @ + 100], ch |-> sf.def])
                       IN [sf EXCEPT !.dprog = r.prog, !.def = r.ch]
           ELSE [sf EXCEPT !.aprog.xp = @ + 25, !.dprog.xp = @ + 25]
    ELSE [s EXCEPT !.battle.current_turn = next_turn(s.battle.current_turn),
                   !.battle.turn_number = @ + 1]

\* the handler: att/def and aprog/dprog are the attacker_* and defender_*
\* accounts of the instruction
execute_turn(p, bt, att, def, aprog, dprog, signer, chosen_stance, use_special, clock) ==
  LET s0 == [res |-> "Ok", pool |-> p, battle |-> bt, att |-> att, def |-> def,
             aprog |-> aprog, dprog |-> dprog, draws |-> <<>>,
             damage_dealt |-> 0, is_crit |-> FALSE]
      is_player1 == (signer = bt.player1)
      s1 == turn_begin(s0, signer, chosen_stance, clock)
      s2 == turn_draws(s1, signer)
      pl == turn_pipeline(s2, is_player1, use_special)
      s3 == turn_apply(pl.s, is_player1, pl.final_damage)
  IN turn_finish(s3)

\* mutant of forfeit_by_timeout: the state of the battle is not checked
forfeit_by_timeout_any_state(bt, clock) ==
  IF ~(clock - bt.last_action_ts > bt.inactivity_timeout)
    THEN [res |-> "TimeoutNotReached", battle |-> bt]
  ELSE [res |-> "Ok",
        battle |-> [bt EXCEPT !.state = "Finished",
                              !.winner = IF bt.current_turn = 1 THEN bt.player2 ELSE bt.player1]]

\* mutant of forfeit_by_timeout: the timeout itself is already enough
forfeit_by_timeout_at_timeout(bt, clock) ==
  IF ~(bt.state = "Active") THEN [res |-> "InvalidBattleState", battle |-> bt]
  ELSE IF ~(clock - bt.last_action_ts >= bt.inactivity_timeout)
    THEN [res |-> "TimeoutNotReached", battle |-> bt]
  ELSE [res |-> "Ok",
        battle |-> [bt EXCEPT !.state = "Finished",
                              !.winner = IF bt.current_turn = 1 THEN bt.player2 ELSE bt.player1]]

\* mutant of forfeit_by_timeout: only an idle player 1 can be forfeited
forfeit_by_timeout_player1_only(bt, clock) ==
  IF ~(bt.state = "Active") THEN [res |-> "InvalidBattleState", battle |-> bt]
  ELSE IF ~(clock - bt.last_action_ts > bt.inactivity_timeout /\ bt.current_turn = 1)
    THEN [res |-> "TimeoutNotReached", battle |-> bt]
  ELSE [res |-> "Ok", battle |-> [bt EXCEPT !.state = "Finished", !.winner = bt.player2]]

\* lines 697-710; now.saturating_sub(last_action_ts) is on i64 and is the plain
\* difference for the times of the model
forfeit_by_timeout(bt, clock) ==
  IF ~(bt.state = "Active") THEN [res |-> "InvalidBattleState", battle |-> bt]
  ELSE IF ~(clock - bt.last_action_ts > bt.inactivity_timeout)
    THEN [res |-> "TimeoutNotReached", battle |-> bt]
  ELSE [res |-> "Ok",
        battle |-> [bt EXCEPT !.state = "Finished",
                              !.winner = IF bt.current_turn = 1 THEN bt.player2 ELSE bt.player1]]

\* lines 713-776: the state check; no field of the battle is assigned (the
\* transfers out of the escrow are finalize_transfers)
finalize_battle(bt) ==
  IF ~(bt.state = "Finished") THEN [res |-> "BattleNotFinished", battle |-> bt]
  ELSE [res |-> "Ok", battle |-> bt]

\* ------------------------------------------------------------------------
\* Stakes (the SPL branch): the token accounts of the offers, requests and
\* battles, and the wallets' token accounts
\* ------------------------------------------------------------------------
Wallets == {P1, P2, Eve, Treasury}

\* Config.fee_bps (line 32: 200 = 2%); create_config stores any u16
ConfigFeeBps == 200

\* the token accounts after create_battle_offer (lines 246-253) and
\* join_battle_offer escrowed the two stakes
Escrowed(stake_amount, offered_stake) ==
  [offer_escrow |-> [b \in BattleIds |-> stake_amount],
   request_escrow |-> [b \in BattleIds |-> offered_stake],
   battle_escrow |-> [b \in BattleIds |-> 0],
   ata |-> [w \in Wallets |-> 0]]

\* lines 467-489: both escrows are emptied into the battle's
approve_transfers(f, b) ==
  [f EXCEPT !.battle_escrow[b] = @ + f.offer_escrow[b] + f.request_escrow[b],
            !.offer_escrow[b] = 0,
            !.request_escrow[b] = 0]

\* token::transfer out of the escrow of battle b
escrow_transfer(f, b, to, amount) ==
  [f EXCEPT !.battle_escrow[b] = @ - amount, !.ata[to] = @ + amount]

\* lines 713-776 with the transfers of lines 739-772; treasury_ata,
\* player1_ata and player2_ata are the token accounts the caller passed
finalize_transfers(bt, f, b, fee_bps, treasury_ata, player1_ata, player2_ata) ==
  LET total_tokens == f.battle_escrow[b]
      fee_amt == (total_tokens * fee_bps) \div 10000
      payout_amt == SatSub(total_tokens, fee_amt)
      dest_ata == IF bt.winner = NoKey THEN treasury_ata
                  ELSE IF bt.winner = bt.player1 THEN player1_ata ELSE player2_ata
      fail(res) == [res |-> res, funds |-> f, fee |-> 0, payout |-> 0, fee_to |-> NoKey,
                    payout_to |-> NoKey]
  IN IF ~(bt.state = "Finished") THEN fail("BattleNotFinished")
     ELSE IF fee_amt > total_tokens THEN fail("InsufficientFunds")
     ELSE [res |-> "Ok",
           funds |-> escrow_transfer(escrow_transfer(f, b, treasury_ata, fee_amt),
                                     b, dest_ata, payout_amt),
           fee |-> fee_amt, payout |-> payout_amt, fee_to |-> treasury_ata,
           payout_to |-> dest_ata]

\* ------------------------------------------------------------------------
\* State machine
\* ------------------------------------------------------------------------
NoOp == [op |-> "none", res |-> "Ok", caller |-> NoKey, b |-> 0, draws |-> <<>>, damage |-> 0,
         special |-> FALSE]

\* what an instruction leaves for the properties to look at (a turn adds the
\* damage_dealt of its TurnResolved event and whether it used the special): a failed call keeps its name and
\* error only
OpResult(op, res, caller, b, draws) ==
  IF res = "Ok"
    THEN [op |-> op, res |-> res, caller |-> caller, b |-> b, draws |-> draws, damage |-> 0,
          special |-> FALSE]
    ELSE [op |-> op, res |-> res, caller |-> NoKey, b |-> 0, draws |-> <<>>, damage |-> 0,
          special |-> FALSE]

DrawIndices(draws) == {draws[i].index : i \in 1..Len(draws)}

Other(bt, signer) == IF signer = bt.player1 THEN bt.player2 ELSE bt.player1

\* the participant current_turn names
SideToMove(bt) == IF bt.current_turn = 1 THEN bt.player1 ELSE bt.player2

\* ------------------------------------------------------------------------
\* The prediction program (predict.rs), SPL branch: single-game pools on the
\* battles, the bets, the restake positions and the parlay vault
\* ------------------------------------------------------------------------
Bettors == {P2, Eve}
Outcomes == {1, 2}
NoOutcome == -1         \* Option<u8>::None

\* BattleState in the game program and BattleStateDiscriminant in predict.rs
StateWaiting == 0
StateActive == 1
StateFinished == 2

\* the arguments of initialize_parlay_pool
ProtocolFeeBps == 2000
PoolMinStake == 2
\* what every bettor's token account holds at the start
BettorTokens == 6

\* u64 and i64 in little-endian; the values of the model are below 65536
le_bytes(v) == <<v % 256, (v \div 256) % 256, 0, 0, 0, 0, 0, 0>>

\* the 32 bytes of an address: key0 is the first byte of the offer creator's
pubkey_bytes(k) == [i \in 1..32 |-> IF i = 1 /\ k = P1 THEN key0 ELSE k]

state_byte(st) ==
  IF st = "Finished" THEN StateFinished ELSE IF st = "Active" THEN StateActive ELSE StateWaiting

\* the data of the Battle account b, Borsh-serialised in the order of the
\* struct after the 8-byte discriminator, through the state byte (the stances
\* and the later fields follow it); no data before approve_challenger
battle_data(bt, b) ==
  IF bt.state = "NoAccount" THEN <<>>
  ELSE [i \in 1..8 |-> 0] \o le_bytes(b) \o pubkey_bytes(bt.player1) \o pubkey_bytes(bt.player2)
       \o le_bytes(0) \o <<bt.current_turn>> \o le_bytes(bt.turn_number)
       \o le_bytes(bt.player1_health) \o le_bytes(bt.player2_health)
       \o <<state_byte(bt.state)>>

\* an account of another program: 58 bytes, st where the snapshot reads the state
foreign_data(st) == [i \in 1..58 |-> IF i = 17 THEN st ELSE 0]

\* lines 771-802: the snapshot read from the raw bytes (the integers are kept
\* as their eight bytes)
deserialize_battle_snapshot(data) ==
  IF Len(data) < 8 + 8 + 1 + 1 + 32 + 8 THEN [res |-> "InvalidBattleAccount"]
  ELSE [res |-> "Ok",
        battle_id |-> SubSeq(data, 9, 16),
        state |-> data[17],
        winner_present |-> data[18],
        winner |-> SubSeq(data, 19, 50),
        start_ts |-> SubSeq(data, 51, 58)]

\* the accounts a caller may pass as `battle`: the Battle account of battle 1
\* or the account of another program
BattleAccounts == {"battle", "foreign"}

account_data(acct) ==
  IF acct = "battle" THEN battle_data(battle[1], 1) ELSE foreign_data(StateFinished)

\* a zeroed account, as init_if_needed and init create it
NoGamePool ==
  [pool_id |-> NoKey, total_staked |-> 0, snapshot_liquidity |-> 0, initialized |-> FALSE,
   is_settled |-> FALSE, winning_outcome |-> NoOutcome]

NoBet == [exists |-> FALSE, bettor |-> NoKey, pool |-> NoKey, chosen_outcome |-> 0, stake |-> 0,
          claimed |-> FALSE]

NoRestake == [exists |-> FALSE, owner |-> NoKey, share |-> 0, closed |-> FALSE]

\* lines 21-41
initialize_parlay_pool(protocol_fee_bps, min_stake) ==
  [liquidity_balance |-> 0, protocol_reserve |-> 0, protocol_fee_bps |-> protocol_fee_bps,
   min_stake |-> min_stake]

\* lines 49-128; gp: the pool of battle_key, bet: the bettor's bet account on it
place_single_bet(gp, bet, cfg, tok, data, battle_key, bettor, chosen_outcome, stake_amount) ==
  LET fail(res) == [res |-> res, game_pool |-> gp, single_bet |-> bet, tokens |-> tok]
      snap == deserialize_battle_snapshot(data)
      gp1 == IF gp.initialized = FALSE
               THEN [gp EXCEPT !.pool_id = battle_key, !.total_staked = 0, !.is_settled = FALSE,
                               !.winning_outcome = NoOutcome, !.initialized = TRUE]
               ELSE gp
      bet1 == [exists |-> TRUE, bettor |-> bettor, pool |-> battle_key,
               chosen_outcome |-> chosen_outcome, stake |-> stake_amount, claimed |-> FALSE]
  IN IF bet.exists THEN fail("AccountInUse")
     ELSE IF ~(stake_amount >= cfg.min_stake) THEN fail("StakeTooSmall")
     ELSE IF snap.res # "Ok" THEN fail(snap.res)
     ELSE IF ~(snap.state # StateFinished) THEN fail("BattleClosed")
     ELSE IF gp.initialized /\ ~(gp.pool_id = battle_key) THEN fail("InvalidPool")
     ELSE IF gp.initialized /\ ~(~gp.is_settled) THEN fail("PoolAlreadySettled")
     ELSE IF tok.ata[bettor] < stake_amount THEN fail("InsufficientFunds")
     ELSE [res |-> "Ok",
           game_pool |-> [gp1 EXCEPT !.total_staked = @ + stake_amount],
           single_bet |-> bet1,
           tokens |-> [tok EXCEPT !.ata[bettor] = @ - stake_amount,
                                  !.game_pool_escrow = @ + stake_amount]]

\* mutant of settle_single_pool: a settled pool is settled again
settle_single_pool_again(gp, data, winning_outcome) ==
  LET snap == deserialize_battle_snapshot(data)
  IN IF ~gp.initialized THEN [res |-> "PoolAlreadySettled", game_pool |-> gp]
     ELSE IF snap.res # "Ok" THEN [res |-> snap.res, game_pool |-> gp]
     ELSE IF ~(snap.state = StateFinished) THEN [res |-> "BattleNotFinished", game_pool |-> gp]
     ELSE [res |-> "Ok",
           game_pool |-> [gp EXCEPT !.winning_outcome = winning_outcome, !.is_settled = TRUE,
                                    !.snapshot_liquidity = gp.total_staked]]

\* lines 135-153
settle_single_pool(gp, data, winning_outcome) ==
  LET snap == deserialize_battle_snapshot(data)
  IN IF ~(gp.initialized /\ ~gp.is_settled) THEN [res |-> "PoolAlreadySettled", game_pool |-> gp]
     ELSE IF snap.res # "Ok" THEN [res |-> snap.res, game_pool |-> gp]
     ELSE IF ~(snap.state = StateFinished) THEN [res |-> "BattleNotFinished", game_pool |-> gp]
     ELSE [res |-> "Ok",
           game_pool |-> [gp EXCEPT !.winning_outcome = winning_outcome, !.is_settled = TRUE,
                                    !.snapshot_liquidity = gp.total_staked]]

\* mutant of claimed_after: a loser's bet stays unclaimed
claimed_after_winner_only(is_winner) == is_winner

\* lines 178, 229 and 258: every successful claim marks the bet
claimed_after(is_winner) == TRUE

\* lines 161-262 (the SPL branch); bet: a bet on the pool gp, rp: the restake position of the
\* signer, created zeroed if it was not there
claim_single(gp, bet, cfg, rp, tok, signer, restake_into_parlay) ==
  LET fail(res) == [res |-> res, single_bet |-> bet, parlay_pool |-> cfg, restake_pos |-> rp,
                    tokens |-> tok, payout |-> 0]
      rp0 == [rp EXCEPT !.exists = TRUE]
      is_winner == gp.winning_outcome # NoOutcome /\ gp.winning_outcome = bet.chosen_outcome
      naive_payout == bet.stake * 2
      fee == (naive_payout * cfg.protocol_fee_bps) \div 10000
      payout_after_fee == SatSub(naive_payout, fee)
  IN IF ~bet.exists THEN fail("AccountNotInitialized")
     ELSE IF ~gp.is_settled THEN fail("PoolNotSettled")
     ELSE IF ~(~bet.claimed) THEN fail("AlreadyClaimed")
     ELSE IF ~is_winner
       THEN [res |-> "Ok", single_bet |-> [bet EXCEPT !.claimed = claimed_after(FALSE)],
             parlay_pool |-> cfg, restake_pos |-> rp0, tokens |-> tok, payout |-> 0]
     ELSE IF tok.game_pool_escrow < payout_after_fee THEN fail("InsufficientFunds")
     ELSE IF restake_into_parlay
       THEN [res |-> "Ok",
             single_bet |-> [bet EXCEPT !.claimed = claimed_after(TRUE)],
             parlay_pool |-> [cfg EXCEPT !.liquidity_balance = @ + payout_after_fee],
             restake_pos |-> [rp0 EXCEPT !.owner = signer, !.share = payout_after_fee],
             tokens |-> [tok EXCEPT !.game_pool_escrow = @ - payout_after_fee,
                                    !.parlay_vault = @ + payout_after_fee],
             payout |-> payout_after_fee]
     ELSE [res |-> "Ok",
           single_bet |-> [bet EXCEPT !.claimed = claimed_after(TRUE)],
           parlay_pool |-> [cfg EXCEPT !.protocol_reserve = @ + fee],
           restake_pos |-> rp0,
           tokens |-> [tok EXCEPT !.game_pool_escrow = @ - payout_after_fee,
                                  !.ata[signer] = @ + payout_after_fee],
           payout |-> payout_after_fee]

NoTicket == [exists |-> FALSE, owner |-> NoKey, stake |-> 0, claimed |-> FALSE]

\* lines 269-342, the games and the multiplier of the ticket left out: the
\* stake goes into the parlay vault; ticket: the bettor's one ticket account
place_parlay_bet(cfg, ticket, tok, bettor, stake) ==
  LET fail(res) == [res |-> res, parlay_pool |-> cfg, parlay_ticket |-> ticket, tokens |-> tok]
  IN IF ticket.exists THEN fail("AccountInUse")
     ELSE IF ~(stake >= cfg.min_stake) THEN fail("StakeTooSmall")
     ELSE IF tok.ata[bettor] < stake THEN fail("InsufficientFunds")
     ELSE [res |-> "Ok",
           parlay_pool |-> [cfg EXCEPT !.liquidity_balance = @ + stake],
           parlay_ticket |-> [exists |-> TRUE, owner |-> bettor, stake |-> stake, claimed |-> FALSE],
           tokens |-> [tok EXCEPT !.ata[bettor] = @ - stake, !.parlay_vault = @ + stake]]

\* lines 450-487
withdraw_restake(rp, cfg, tok, owner) ==
  LET fail(res) == [res |-> res, restake_pos |-> rp, parlay_pool |-> cfg, tokens |-> tok,
                    payout |-> 0]
      payout == rp.share
      fee == (payout * cfg.protocol_fee_bps) \div 10000
      payout_after_fee == SatSub(payout, fee)
  IN IF ~rp.exists THEN fail("AccountNotInitialized")
     ELSE IF ~(rp.owner = owner) THEN fail("Unauthorized")
     ELSE IF tok.parlay_vault < payout_after_fee THEN fail("InsufficientFunds")
     ELSE [res |-> "Ok",
           restake_pos |-> [rp EXCEPT !.closed = TRUE],
           parlay_pool |-> [cfg EXCEPT !.protocol_reserve = @ + fee,
                                       !.liquidity_balance = SatSub(@, payout_after_fee)],
           tokens |-> [tok EXCEPT !.parlay_vault = @ - payout_after_fee,
                                  !.ata[owner] = @ + payout_after_fee],
           payout |-> payout_after_fee]

\* the prediction program after initialize_parlay_pool, no pool, bet or
\* position created yet; firsts: the first bytes the creator's address may have
InitPredict(firsts) ==
  /\ parlay_pool = initialize_parlay_pool(ProtocolFeeBps, PoolMinStake)
  /\ game_pool = NoGamePool
  /\ single_bet = [w \in Bettors |-> NoBet]
  /\ restake_pos = [w \in Bettors |-> NoRestake]
  /\ parlay_ticket = [w \in Bettors |-> NoTicket]
  /\ tokens = [game_pool_escrow |-> 0, parlay_vault |-> 0, ata |-> [w \in Bettors |-> BettorTokens]]
  /\ key0 \in firsts

\* the state after the accounts were created: the pool, one offer and one
\* pending request for each battle with the two stakes escrowed, and the two
\* characters
InitStaked(classPairs, stake_amount, offered_stake) ==
  /\ pool = create_entropy_pool
  /\ battle = [b \in BattleIds |-> NoBattle]
  /\ offer = [b \in BattleIds |->
                [creator |-> P1, challenger |-> P2, is_active |-> TRUE,
                 status |-> "Pending", inactivity_timeout |-> 0]]
  /\ \E cp \in classPairs :
       character = (P1 :> create_character_from_nft(cp[1])) @@ (P2 :> create_character_from_nft(cp[2]))
  /\ progression = (P1 :> NewProgression) @@ (P2 :> NewProgression)
  /\ now = 0
  /\ lastOp = NoOp
  /\ issued = {}
  /\ refilled = 0
  /\ skipped = 0
  /\ funds = Escrowed(stake_amount, offered_stake)

\* offers and requests that stake nothing, and no account of the prediction
\* program in use
InitWith(classPairs) == InitStaked(classPairs, 0, 0) /\ InitPredict({1})

Tick ==
  /\ now < MaxTime
  /\ now' = now + 1
  /\ lastOp' = NoOp
  /\ UNCHANGED <<pool, battle, offer, character, progression, issued, refilled, skipped, funds, predict>>

RefillSeedBatch(caller, seed, start_index, count, limit) ==
  /\ start_index >= 0
  /\ start_index + count <= limit
  /\ skipped + (start_index - pool.global_next_index) <= MaxGap
  /\ \E r \in {refill_seed_batch(pool, caller, seed, start_index, count)} :
        /\ pool' = Commit(r.res, pool, r.pool)
        /\ refilled' = IF r.res = "Ok" THEN refilled + count ELSE refilled
        /\ skipped' = IF r.res = "Ok" THEN skipped + (start_index - pool.global_next_index)
                      ELSE skipped
        /\ lastOp' = OpResult("refill_seed_batch", r.res, NoKey, 0, <<>>)
  /\ UNCHANGED <<battle, offer, character, progression, now, issued, funds, predict>>

ApproveChallenger(b, caller) ==
  /\ battle[b].state = "NoAccount"
  /\ \E r \in {approve_challenger(offer[b], pool, caller, now)} :
        /\ pool' = Commit(r.res, pool, r.pool)
        /\ offer' = [offer EXCEPT ![b] = Commit(r.res, offer[b], r.offer)]
        /\ battle' = [battle EXCEPT ![b] = Commit(r.res, battle[b], r.battle)]
        /\ issued' = IF r.res = "Ok" THEN issued \cup DrawIndices(r.draws) ELSE issued
        /\ funds' = Commit(r.res, funds, approve_transfers(funds, b))
        /\ lastOp' = OpResult("approve_challenger", r.res, caller, b, r.draws)
  /\ UNCHANGED <<character, progression, now, refilled, skipped, predict>>

\* the accounts a client passes to execute_turn on battle b: the signer's
\* character and progression as attacker, the opponent's as defender
Attacker(b, signer) == IF signer = battle[b].player2 THEN battle[b].player2 ELSE battle[b].player1

TurnResult(b, signer, chosen_stance, use_special) ==
  LET bt == battle[b]
      a == Attacker(b, signer)
      d == Other(bt, a)
  IN execute_turn(pool, bt, character[a], character[d], progression[a], progression[d],
                  signer, chosen_stance, use_special, now)

ExecuteTurn(b, signer, chosen_stance, use_special) ==
  /\ battle[b].state # "NoAccount"
  /\ \E r \in {TurnResult(b, signer, chosen_stance, use_special)} :
       LET a == Attacker(b, signer)
           d == Other(battle[b], a)
       IN /\ pool' = Commit(r.res, pool, r.pool)
          /\ battle' = [battle EXCEPT ![b] = Commit(r.res, battle[b], r.battle)]
          /\ character' = Commit(r.res, character, [character EXCEPT ![a] = r.att, ![d] = r.def])
          /\ progression' = Commit(r.res, progression,
                                   [progression EXCEPT ![a] = r.aprog, ![d] = r.dprog])
          /\ issued' = IF r.res = "Ok" THEN issued \cup DrawIndices(r.draws) ELSE issued
          /\ lastOp' = [OpResult("execute_turn", r.res, signer, b, r.draws)
                          EXCEPT !.damage = IF r.res = "Ok" THEN r.damage_dealt ELSE 0,
                                 !.special = r.res = "Ok" /\ use_special]
  /\ UNCHANGED <<offer, now, refilled, skipped, funds, predict>>

ForfeitByTimeout(b) ==
  /\ battle[b].state # "NoAccount"
  /\ \E r \in {forfeit_by_timeout(battle[b], now)} :
        /\ battle' = [battle EXCEPT ![b] = Commit(r.res, battle[b], r.battle)]
        /\ lastOp' = OpResult("forfeit_by_timeout", r.res, NoKey, b, <<>>)
  /\ UNCHANGED <<pool, offer, character, progression, now, issued, refilled, skipped, funds, predict>>

\* finalize_battle with the three token accounts the caller passes
FinalizeBattleWith(b, treasury_ata, player1_ata, player2_ata) ==
  /\ battle[b].state # "NoAccount"
  /\ \E r \in {finalize_battle(battle[b])},
        t \in {finalize_transfers(battle[b], funds, b, ConfigFeeBps,
                                  treasury_ata, player1_ata, player2_ata)} :
        /\ battle' = [battle EXCEPT ![b] = Commit(t.res, battle[b], r.battle)]
        /\ funds' = Commit(t.res, funds, t.funds)
        /\ lastOp' = OpResult("finalize_battle", t.res, NoKey, b, <<>>)
  /\ UNCHANGED <<pool, offer, character, progression, now, issued, refilled, skipped, predict>>

\* the treasury's and the two players' own token accounts
FinalizeBattle(b) == FinalizeBattleWith(b, Treasury, battle[b].player1, battle[b].player2)

\* ---- the instructions of the prediction program on the pool of battle 1 ----
PlaceSingleBet(acct, bettor, chosen_outcome, stake_amount) ==
  /\ \E r \in {place_single_bet(game_pool, single_bet[bettor], parlay_pool, tokens,
                                account_data(acct), 1, bettor, chosen_outcome, stake_amount)} :
        /\ game_pool' = Commit(r.res, game_pool, r.game_pool)
        /\ single_bet' = [single_bet EXCEPT ![bettor] = Commit(r.res, @, r.single_bet)]
        /\ tokens' = Commit(r.res, tokens, r.tokens)
        /\ lastOp' = OpResult("place_single_bet", r.res, bettor, 1, <<>>)
  /\ UNCHANGED <<pool, battle, offer, character, progression, now, issued, refilled, skipped,
                 funds, parlay_pool, restake_pos, parlay_ticket, key0>>

SettleSinglePool(acct, winning_outcome) ==
  /\ \E r \in {settle_single_pool(game_pool, account_data(acct), winning_outcome)} :
        /\ game_pool' = Commit(r.res, game_pool, r.game_pool)
        /\ lastOp' = OpResult("settle_single_pool", r.res, NoKey, 1, <<>>)
  /\ UNCHANGED <<pool, battle, offer, character, progression, now, issued, refilled, skipped,
                 funds, parlay_pool, single_bet, restake_pos, parlay_ticket, tokens, key0>>

\* signer claims the bet of bettor
ClaimSingle(bettor, signer, restake_into_parlay) ==
  /\ \E r \in {claim_single(game_pool, single_bet[bettor], parlay_pool, restake_pos[signer],
                            tokens, signer, restake_into_parlay)} :
        /\ single_bet' = [single_bet EXCEPT ![bettor] = Commit(r.res, @, r.single_bet)]
        /\ parlay_pool' = Commit(r.res, parlay_pool, r.parlay_pool)
        /\ restake_pos' = [restake_pos EXCEPT ![signer] = Commit(r.res, @, r.restake_pos)]
        /\ tokens' = Commit(r.res, tokens, r.tokens)
        /\ lastOp' = [OpResult("claim_single", r.res, bettor, 1, <<>>) EXCEPT !.damage = r.payout]
  /\ UNCHANGED <<pool, battle, offer, character, progression, now, issued, refilled, skipped,
                 funds, game_pool, parlay_ticket, key0>>

PlaceParlayBet(bettor, stake) ==
  /\ \E r \in {place_parlay_bet(parlay_pool, parlay_ticket[bettor], tokens, bettor, stake)} :
        /\ parlay_pool' = Commit(r.res, parlay_pool, r.parlay_pool)
        /\ parlay_ticket' = [parlay_ticket EXCEPT ![bettor] = Commit(r.res, @, r.parlay_ticket)]
        /\ tokens' = Commit(r.res, tokens, r.tokens)
        /\ lastOp' = OpResult("place_parlay_bet", r.res, bettor, 0, <<>>)
  /\ UNCHANGED <<pool, battle, offer, character, progression, now, issued, refilled, skipped,
                 funds, game_pool, single_bet, restake_pos, key0>>

\* owner withdraws the position of holder
WithdrawRestake(holder, owner) ==
  /\ \E r \in {withdraw_restake(restake_pos[holder], parlay_pool, tokens, owner)} :
        /\ restake_pos' = [restake_pos EXCEPT ![holder] = Commit(r.res, @, r.restake_pos)]
        /\ parlay_pool' = Commit(r.res, parlay_pool, r.parlay_pool)
        /\ tokens' = Commit(r.res, tokens, r.tokens)
        /\ lastOp' = [OpResult("withdraw_restake", r.res, holder, 0, <<>>) EXCEPT !.damage = r.payout]
  /\ UNCHANGED <<pool, battle, offer, character, progression, now, issued, refilled, skipped,
                 funds, game_pool, single_bet, parlay_ticket, key0>>

\* ------------------------------------------------------------------------
\* SpecPool: one pool feeding two battles; refills of one or four entries,
\* contiguous or skipping an index; the clock stands still.
\* ------------------------------------------------------------------------
\* caller, count, start_index - global_next_index: the accepted refills and one
\* call for each way of being rejected
RefillInputs ==
  ({Oracle} \X {1, 4} \X {0, 1})
    \cup {<<Authority, 1, 0>>, <<Eve, 1, 0>>, <<Oracle, 0, 0>>, <<Oracle, 1, -1>>}

\* signer, chosen_stance, use_special; an outsider's call fails before either
\* argument is read
PoolTurnInputs ==
  ({P1, P2} \X {"Balanced", "Berserker"} \X BOOLEAN) \cup {<<Eve, "Balanced", FALSE>>}

InitPool == InitWith({<<"Warrior", "Tank">>})

PoolRefill ==
  \E i \in RefillInputs, seed \in Seeds :
    RefillSeedBatch(i[1], seed, pool.global_next_index + i[3], i[2], MaxIndex)

PoolApprove == \E b \in BattleIds, caller \in {P1, Eve} : ApproveChallenger(b, caller)

PoolTurn == \E b \in BattleIds, t \in PoolTurnInputs : ExecuteTurn(b, t[1], t[2], t[3])

NextPool == PoolRefill \/ PoolApprove \/ PoolTurn

SpecPool == InitPool /\ [][NextPool]_vars

\* ------------------------------------------------------------------------
\* SpecDuel: one battle with every stance and the clock; refills of four
\* entries (and the single entry the first-mover draw takes).
\* ------------------------------------------------------------------------
DuelRefillInputs ==
  {<<Oracle, 1, 1>>, <<Oracle, 4, 0>>, <<Eve, 4, 0>>, <<Oracle, 0, 0>>, <<Oracle, 4, -1>>}

TurnInputs == ({P1, P2} \X Stances \X BOOLEAN) \cup {<<Eve, "Balanced", FALSE>>}

InitDuel == InitWith({<<"Warrior", "Tank">>, <<"Mage", "Trickster">>})

DuelRefill ==
  \E i \in DuelRefillInputs, seed \in Seeds :
    RefillSeedBatch(i[1], seed, pool.global_next_index + i[3], i[2], DuelMaxIndex)

DuelApprove == \E caller \in {P1, Eve} : ApproveChallenger(1, caller)

DuelTurn == \E t \in TurnInputs : ExecuteTurn(1, t[1], t[2], t[3])

DuelForfeit == ForfeitByTimeout(1)

DuelFinalize == FinalizeBattle(1)

NextDuel == Tick \/ DuelRefill \/ DuelApprove \/ DuelTurn \/ DuelForfeit \/ DuelFinalize

SpecDuel == InitDuel /\ [][NextDuel]_vars

\* ------------------------------------------------------------------------
\* SpecFight: one battle fought to the end.  The oracle refills when the pool
\* cannot pay for a turn; the side to move attacks in the Berserker or the
\* Counter stance, with or without its special; every instruction is also
\* tried on the finished battle.
\* ------------------------------------------------------------------------
FightRefillInputs == {<<Oracle, 1, 1>>, <<Oracle, 4, 0>>}

FightTurnInputs == {P1, P2} \X {"Berserker", "Counter"} \X BOOLEAN

InitFight == InitWith({<<"Warrior", "Tank">>, <<"Assassin", "Mage">>, <<"Trickster", "Warrior">>})

FightRefill ==
  /\ pool.total_available < MIN_ENTROPY_PER_TURN
  /\ \E i \in FightRefillInputs, seed \in Seeds :
       RefillSeedBatch(i[1], seed, pool.global_next_index + i[3], i[2], FightMaxIndex)

FightTurn ==
  \E t \in FightTurnInputs :
    /\ \/ battle[1].state = "Finished"
       \/ t[1] = (IF battle[1].current_turn = 1 THEN battle[1].player1 ELSE battle[1].player2)
    /\ ExecuteTurn(1, t[1], t[2], t[3])

\* the clock stands still: only the forfeit attempted on the finished battle
FightForfeit == battle[1].state = "Finished" /\ ForfeitByTimeout(1)

FightFinalize == FinalizeBattle(1)

NextFight == FightRefill \/ DuelApprove \/ FightTurn \/ FightForfeit \/ FightFinalize

SpecFight == InitFight /\ [][NextFight]_vars

\* ------------------------------------------------------------------------
\* SpecClock: one battle of Balanced turns against the clock, the oracle
\* committing one of three seeds with every batch.  An approval or
\* a turn is taken only while the clock of the model can still run past the
\* timeout that it starts.  SpecClockFair adds that the clock keeps running and
\* that the forfeit is eventually called.
\* ------------------------------------------------------------------------
ClockTurnInputs == {P1, P2} \X {"Balanced"} \X {FALSE}

ClockSeeds == {1, 2, 3}

ClockFits == now + ConfigInactivityTimeout < ClockMaxTime

ClockTick ==
  /\ now < ClockMaxTime
  /\ now' = now + 1
  /\ lastOp' = NoOp
  /\ UNCHANGED <<pool, battle, offer, character, progression, issued, refilled, skipped, funds, predict>>

ClockRefill ==
  /\ pool.total_available < MIN_ENTROPY_PER_TURN
  /\ \E i \in FightRefillInputs, seed \in ClockSeeds :
       RefillSeedBatch(i[1], seed, pool.global_next_index + i[3], i[2], DuelMaxIndex)

ClockApprove == ClockFits /\ ApproveChallenger(1, P1)

ClockTurn == ClockFits /\ \E t \in ClockTurnInputs : ExecuteTurn(1, t[1], t[2], t[3])

ClockForfeit == ForfeitByTimeout(1)

NextClock == ClockTick \/ ClockRefill \/ ClockApprove \/ ClockTurn \/ ClockForfeit

SpecClock == InitPool /\ [][NextClock]_vars

SpecClockFair == SpecClock /\ WF_vars(ClockTick) /\ WF_vars(ClockForfeit)

\* ------------------------------------------------------------------------
\* SpecStreak: one long battle of mostly Defensive turns.  The oracle commits one of
\* two seeds with every batch; among the draws they give, player 1 meets the
\* same base draw in seven turns running.
\* ------------------------------------------------------------------------
StreakSeeds == {82, 86}

StreakRefill ==
  /\ pool.total_available < MIN_ENTROPY_PER_TURN
  /\ \E i \in FightRefillInputs, seed \in StreakSeeds :
       RefillSeedBatch(i[1], seed, pool.global_next_index + i[3], i[2], StreakMaxIndex)

StreakApprove == ApproveChallenger(1, P1)

\* the stance and special of the side to move: Defensive without special,
\* or Aggressive in player 2's first turn, or Berserker with the special in
\* player 1's second
StreakInputs(bt) ==
  {<<"Defensive", FALSE>>}
    \cup (IF SideToMove(bt) = P2 /\ bt.turn_number <= 1 THEN {<<"Aggressive", FALSE>>} ELSE {})
    \cup (IF SideToMove(bt) = P1 /\ bt.turn_number \in 2..3 THEN {<<"Berserker", TRUE>>} ELSE {})

StreakTurn ==
  /\ battle[1].state = "Active"
  /\ \E i \in StreakInputs(battle[1]) : ExecuteTurn(1, SideToMove(battle[1]), i[1], i[2])

NextStreak == StreakRefill \/ StreakApprove \/ StreakTurn

SpecStreak == InitPool /\ [][NextStreak]_vars

\* ------------------------------------------------------------------------
\* SpecSettle: the battle of SpecFight between a Trickster and a Warrior with
\* 30 and 45 tokens staked, finalized by a caller who passes the treasury's
\* and the players' token accounts, or token accounts of its own.
\* ------------------------------------------------------------------------
StakeAmount == 30
OfferedStake == 45

FinalizeAccounts == {<<Treasury, P1, P2>>, <<Eve, Eve, Eve>>}

InitSettle == InitStaked({<<"Trickster", "Warrior">>}, StakeAmount, OfferedStake) /\ InitPredict({1})

SettleFinalize == \E a \in FinalizeAccounts : FinalizeBattleWith(1, a[1], a[2], a[3])

NextSettle == FightRefill \/ DuelApprove \/ FightTurn \/ SettleFinalize

SpecSettle == InitSettle /\ [][NextSettle]_vars

\* ------------------------------------------------------------------------
\* SpecPredict: bets on battle 1, which is approved and then forfeited on
\* the clock.  Two bettors stake on either outcome; the pool is settled with
\* the Battle account or with the account of another program; bets are
\* claimed, restaked and withdrawn, also by the other bettor.  The address
\* of the offer's creator starts with any of three bytes.
\* ------------------------------------------------------------------------
FirstBytes == {1, 2, 77}
BetStakes == {1, 3}

InitPredictOn == InitStaked({<<"Warrior", "Tank">>}, 0, 0) /\ InitPredict(FirstBytes)

PredictRefill ==
  /\ pool.total_available = 0
  /\ battle[1].state = "NoAccount"
  /\ RefillSeedBatch(Oracle, 1, pool.global_next_index + 1, 1, MaxIndex)

PredictApprove == ApproveChallenger(1, P1)

PredictForfeit == ForfeitByTimeout(1)

PredictPlace ==
  \E w \in Bettors, o \in Outcomes, st \in BetStakes : PlaceSingleBet("battle", w, o, st)

PredictSettle == \E acct \in BattleAccounts, o \in Outcomes : SettleSinglePool(acct, o)

PredictClaim == \E w \in Bettors, restake \in BOOLEAN : ClaimSingle(w, w, restake)

PredictParlay == PlaceParlayBet(Eve, 3)

PredictWithdraw == \E h \in Bettors, w \in Bettors : WithdrawRestake(h, w)

NextPredict ==
  \/ PredictRefill \/ PredictApprove \/ Tick \/ PredictForfeit
  \/ PredictPlace \/ PredictSettle \/ PredictClaim \/ PredictParlay \/ PredictWithdraw

SpecPredict == InitPredictOn /\ [][NextPredict]_vars

\* ------------------------------------------------------------------------
\* Properties
\* ------------------------------------------------------------------------
RECURSIVE SumOver(_, _)
SumOver(f, S) == IF S = {} THEN 0
                 ELSE LET x == CHOOSE y \in S : TRUE IN f[x] + SumOver(f, S \ {x})

LiveSum(p) == SumOver([i \in Slots |-> p.batches[i].count - p.batches[i].consumed], Slots)
ConsumedSum(p) == SumOver([i \in Slots |-> p.batches[i].consumed], Slots)

IsDrawOp(o) == o.res = "Ok" /\ o.op \in {"approve_challenger", "execute_turn"}

\* the inputs the state properties give to a single draw
DrawSigners == {P1, P2}
DrawTags == {TagFirstMover, TagBase, TagCrit, TagDodge, TagWild}
DrawTurns == {0, 1}
DrawRanges == {<<0, 1>>, <<0, 9999>>, <<8, 15>>}

\* C1: in every reachable pool state total_available equals the sum over the
\* 8 ring slots of (count - consumed).
C1_TotalAvailableIsLiveSum == pool.total_available = LiveSum(pool)

\* C2: over any interleaving of refills and of the draws of the battles that
\* share the pool, no draw hands out a global index that was handed out
\* before, nor the same index twice within one operation.
C2_NoIndexTwice ==
  [][IsDrawOp(lastOp') =>
       LET d == lastOp'.draws
       IN /\ \A i \in 1..Len(d) : d[i].index \notin issued
          /\ \A i, j \in 1..Len(d) : i # j => d[i].index # d[j].index]_vars

C2_Witness ==
  /\ battle[1].state = "Active" /\ battle[1].turn_number >= 1
  /\ battle[2].state = "Active" /\ battle[2].turn_number >= 1
  /\ Cardinality(issued) >= 10

\* does the sequence of draws rise strictly, starting above `last`?
RECURSIVE Rising(_, _)
Rising(last, d) ==
  IF d = <<>> THEN TRUE ELSE Head(d).index > last /\ Rising(Head(d).index, Tail(d))

\* C3: every draw a battle accepts (the first-mover draw, the four draws of a
\* turn) has an index above the battle's last_entropy_index, which becomes
\* that index; an operation in which a draw returns an index that is not above
\* it fails with SeedReplay.
C3_EntropyIndexRises ==
  /\ [][IsDrawOp(lastOp') =>
          LET b == lastOp'.b
              d == lastOp'.draws
              last == IF lastOp'.op = "approve_challenger" THEN 0
                      ELSE battle[b].last_entropy_index
          IN /\ Len(d) = (IF lastOp'.op = "approve_challenger" THEN 1 ELSE 4)
             /\ Rising(last, d)
             /\ battle'[b].last_entropy_index = d[Len(d)].index
             /\ battle'[b].last_entropy_index > last]_vars
  /\ [](\A b \in BattleIds :
          /\ battle[b].state # "NoAccount" =>
               \A t \in TurnInputs :
                 LET r == TurnResult(b, t[1], t[2], t[3])
                 IN ~Rising(battle[b].last_entropy_index, r.draws) => r.res = "SeedReplay"
          /\ battle[b].state = "NoAccount" =>
               LET r == approve_challenger(offer[b], pool, P1, now)
               IN ~Rising(0, r.draws) => r.res = "SeedReplay")

C3_Witness ==
  /\ lastOp.op = "execute_turn" /\ lastOp.res = "SeedReplay"
  /\ \E b \in BattleIds : battle[b].state = "Active" /\ battle[b].turn_number >= 1

\* C4: a refill whose start_index is below global_next_index is rejected
\* (with SeedReplay when the caller may refill and count > 0) and leaves the
\* pool as it was; global_next_index never decreases.
C4_RollbackRejected ==
  /\ [](\A caller \in {Oracle, Authority, Eve}, seed \in Seeds, count \in {0, 1, 4},
           start_index \in 0..MaxIndex :
          start_index < pool.global_next_index =>
            LET r == refill_seed_batch(pool, caller, seed, start_index, count)
            IN /\ r.res # "Ok"
               /\ r.pool = pool
               /\ (caller \in {Oracle, Authority} /\ count > 0) => r.res = "SeedReplay")
  /\ [][/\ pool'.global_next_index >= pool.global_next_index
        /\ (lastOp'.op = "refill_seed_batch" /\ lastOp'.res = "SeedReplay") => pool' = pool]_vars

C4_Witness ==
  /\ lastOp.op = "refill_seed_batch" /\ lastOp.res = "SeedReplay"
  /\ pool.global_next_index >= 2

\* C5 as stated: after N successful refills global_next_index is the initial
\* watermark (0) plus the sum of the N counts.
C5_WatermarkIsSumOfCounts == pool.global_next_index = 0 + refilled

\* C5 amended: global_next_index is the initial watermark plus the sum of the
\* counts plus the indices skipped by refills that started above the
\* watermark; it is never below initial + counts, and equals it when no
\* refill skipped an index.
C5_WatermarkIsCountsPlusSkipped ==
  /\ pool.global_next_index = 0 + refilled + skipped
  /\ skipped >= 0
  /\ pool.global_next_index >= refilled

C5_Witness == skipped > 0 /\ refilled >= 5 /\ pool.tail >= 2

\* C6: a successful refill rewrites the slot at tail only when the batch it
\* held is fully consumed.
C6_NoLiveSlotOverwritten ==
  [][(lastOp'.op = "refill_seed_batch" /\ lastOp'.res = "Ok") =>
       LET old == pool.batches[pool.tail % MAX_BATCHES]
       IN old.consumed >= old.count]_vars

\* C7: every successful draw returns a value within [min, max], lowers
\* total_available by exactly 1 and raises the consumed counter of exactly one
\* batch by 1, changing nothing else of any batch.
C7_DrawInRangeAndCounted ==
  /\ [](\A signer \in DrawSigners, tag \in DrawTags, turn \in DrawTurns, rg \in DrawRanges :
          LET r == consume_mixed_u64_return_index(pool, signer, tag, turn, rg[1], rg[2])
          IN r.res = "Ok" =>
               /\ pool.total_available > 0
               /\ rg[1] <= r.val /\ r.val <= rg[2]
               /\ r.pool.total_available = pool.total_available - 1
               /\ \E i \in Slots :
                    /\ r.pool.batches[i] =
                         [pool.batches[i] EXCEPT !.consumed = pool.batches[i].consumed + 1]
                    /\ r.pool.batches[i].consumed <= r.pool.batches[i].count
                    /\ r.index = pool.batches[i].start + pool.batches[i].consumed
                    /\ \A j \in Slots \ {i} : r.pool.batches[j] = pool.batches[j])
  /\ [][IsDrawOp(lastOp') =>
          LET d == lastOp'.draws
          IN /\ \A i \in 1..Len(d) : d[i].min <= d[i].val /\ d[i].val <= d[i].max
             /\ pool'.total_available = pool.total_available - Len(d)
             /\ ConsumedSum(pool') = ConsumedSum(pool) + Len(d)]_vars

C7_Witness ==
  /\ lastOp.op = "execute_turn" /\ lastOp.res = "Ok"
  /\ lastOp.draws[1].val >= 8
  /\ pool.head >= 2

\* C8: the value of a draw depends on (seed, offset, requester, tag, turn,
\* min, max) only: the draw from the pool as it stands and the draw from a
\* fresh pool that holds nothing but a batch with the same seed starting at
\* the same offset give the same value (and the same index), whatever head,
\* tail, total_available, the slot, its consumed counter and the other
\* batches are.
C8_DrawDependsOnInputsOnly ==
  \A signer \in DrawSigners, tag \in DrawTags, turn \in DrawTurns, rg \in DrawRanges :
    LET a == consume_mixed_u64_return_index(pool, signer, tag, turn, rg[1], rg[2])
        q == refill_seed_batch(create_entropy_pool, Oracle, a.seed, a.index, 1).pool
        c == consume_mixed_u64_return_index(q, signer, tag, turn, rg[1], rg[2])
    IN a.res = "Ok" => (c.res = "Ok" /\ c.index = a.index /\ c.seed = a.seed /\ c.val = a.val)

C8_Witness ==
  /\ pool.head >= 1
  /\ \E i \in Slots : /\ pool.batches[i].consumed >= 2
                      /\ pool.batches[i].consumed < pool.batches[i].count
                      /\ FindBatch(pool, pool.head % MAX_BATCHES) = i

\* C9: execute_turn succeeds only on an Active battle and for the participant
\* current_turn names; on an Active battle the other participant gets
\* NotYourTurn and an outsider Unauthorized, any call on a battle that is not
\* Active fails, and none of these calls changes any account.
C9_OnlyTheSideToMove ==
  /\ [][(lastOp'.op = "execute_turn" /\ lastOp'.res = "Ok") =>
          LET bt == battle[lastOp'.b]
          IN /\ bt.state = "Active"
             /\ lastOp'.caller = (IF bt.current_turn = 1 THEN bt.player1 ELSE bt.player2)]_vars
  /\ [][(lastOp'.op = "execute_turn"
           /\ lastOp'.res \in {"NotYourTurn", "Unauthorized", "InvalidBattleState"}) =>
          UNCHANGED <<pool, battle, offer, character, progression, issued>>]_vars
  /\ [](\A b \in BattleIds : battle[b].state # "NoAccount" =>
          \A t \in TurnInputs :
            LET bt == battle[b]
                r == TurnResult(b, t[1], t[2], t[3])
                mover == IF bt.current_turn = 1 THEN bt.player1 ELSE bt.player2
            IN /\ bt.state # "Active" => r.res = "InvalidBattleState"
               /\ (bt.state = "Active" /\ t[1] \notin {bt.player1, bt.player2}) =>
                    r.res = "Unauthorized"
               /\ (bt.state = "Active" /\ t[1] \in {bt.player1, bt.player2} /\ t[1] # mover) =>
                    r.res = "NotYourTurn"
               /\ r.res = "Ok" => (bt.state = "Active" /\ t[1] = mover))

C9_Witness ==
  /\ lastOp.op = "execute_turn" /\ lastOp.res = "NotYourTurn"
  /\ battle[1].state = "Active" /\ battle[1].turn_number >= 1

\* what execute_turn had assigned when it returned, against the accounts
TurnTouched(b, signer, r) ==
  \/ r.pool # pool
  \/ r.battle # battle[b]
  \/ r.att # character[Attacker(b, signer)]

\* C10: a failed execute_turn, at whatever step it fails, leaves the pool, the
\* battle, both characters and both progressions exactly as before the call,
\* also when the handler had already assigned some of them.
C10_TurnAllOrNothing ==
  [][(lastOp'.op = "execute_turn" /\ lastOp'.res # "Ok") =>
       UNCHANGED <<pool, battle, offer, character, progression, issued>>]_vars

\* a turn that failed on the cooldown after its four draws, at a time after
\* the battle's last action
C10_Witness ==
  /\ lastOp.op = "execute_turn" /\ lastOp.res = "SpecialOnCooldown"
  /\ battle[1].state = "Active" /\ now > battle[1].last_action_ts
  /\ \E t \in TurnInputs :
       LET r == TurnResult(1, t[1], t[2], t[3])
       IN r.res = "SpecialOnCooldown" /\ Len(r.draws) = 4 /\ TurnTouched(1, t[1], r)

\* the times the state properties give to the clock of an instruction
ClockValues == 0..(MaxTime + ConfigInactivityTimeout + 1)

\* execute_turn on battle bt with the accounts of battle b
TurnOn(b, bt, t) ==
  LET a == IF t[1] = bt.player2 THEN bt.player2 ELSE bt.player1
      d == Other(bt, a)
  IN execute_turn(pool, bt, character[a], character[d], progression[a], progression[d],
                  t[1], t[2], t[3], now)

\* C11: Finished is terminal.  No step changes a Finished battle (its state,
\* winner, healths, current_turn, turn_number, last_entropy_index or any other
\* field); on a battle that is Finished, whether a lethal turn or a
\* forfeiture finished it, execute_turn and forfeit_by_timeout fail with
\* InvalidBattleState for every caller and time, and finalize_battle assigns
\* no field of it.
C11_FinishedIsTerminal ==
  /\ [][\A b \in BattleIds : battle[b].state = "Finished" => battle'[b] = battle[b]]_vars
  /\ [](\A b \in BattleIds :
          LET ended == IF battle[b].state = "NoAccount" THEN {}
                       ELSE {battle[b]}
                              \cup {forfeit_by_timeout(battle[b], c).battle : c \in ClockValues}
          IN \A fb \in ended : fb.state = "Finished" =>
               /\ \A t \in TurnInputs : TurnOn(b, fb, t).res = "InvalidBattleState"
               /\ \A c \in ClockValues : forfeit_by_timeout(fb, c).res = "InvalidBattleState"
               /\ finalize_battle(fb).battle = fb)

\* a battle ended by a lethal turn, on which a further turn was then refused
C11_Witness ==
  /\ battle[1].state = "Finished"
  /\ battle[1].player1_health = 0 \/ battle[1].player2_health = 0
  /\ lastOp.op = "execute_turn" /\ lastOp.res = "InvalidBattleState"

\* C12: forfeit_by_timeout succeeds iff the battle is Active and now -
\* last_action_ts is strictly greater than inactivity_timeout (it fails one
\* tick before and at the timeout, it succeeds one tick after); on success
\* the battle is Finished, the winner is the participant current_turn does not
\* name, and nothing else of the battle changes.  last_action_ts is the time
\* of the approval or of the last successful turn: no other step assigns it.
C12_ForfeitAfterTimeout ==
  /\ [](\A b \in BattleIds : battle[b].state # "NoAccount" =>
          LET bt == battle[b]
              T == bt.last_action_ts
              to == bt.inactivity_timeout
          IN /\ \A c \in ClockValues \cup {now} :
                  LET r == forfeit_by_timeout(bt, c)
                  IN /\ r.res = "Ok" <=> (bt.state = "Active" /\ c - T > to)
                     /\ r.res = "Ok" =>
                          /\ r.battle = [bt EXCEPT !.state = "Finished", !.winner = r.battle.winner]
                          /\ r.battle.winner \in {bt.player1, bt.player2}
                          /\ r.battle.winner # SideToMove(bt)
                     /\ r.res # "Ok" => r.battle = bt
             /\ bt.state = "Active" =>
                  /\ forfeit_by_timeout(bt, T + to - 1).res = "TimeoutNotReached"
                  /\ forfeit_by_timeout(bt, T + to).res = "TimeoutNotReached"
                  /\ forfeit_by_timeout(bt, T + to + 1).res = "Ok")
  /\ [][\A b \in BattleIds :
          /\ (lastOp'.res = "Ok" /\ lastOp'.b = b
                /\ lastOp'.op \in {"approve_challenger", "execute_turn"})
               => battle'[b].last_action_ts = now
          /\ ~(lastOp'.res = "Ok" /\ lastOp'.b = b
                /\ lastOp'.op \in {"approve_challenger", "execute_turn"})
               => battle'[b].last_action_ts = battle[b].last_action_ts
          /\ (lastOp'.op = "forfeit_by_timeout" /\ lastOp'.res = "Ok" /\ lastOp'.b = b) =>
               /\ battle[b].state = "Active"
               /\ now - battle[b].last_action_ts > battle[b].inactivity_timeout
               /\ battle'[b].state = "Finished"
               /\ battle'[b].winner = Other(battle[b], SideToMove(battle[b]))]_vars

\* a forfeiture after a turn taken later than the approval: it was refused at
\* the timeout and has now awarded the win to the side that had moved
C12_Witness ==
  /\ lastOp.op = "forfeit_by_timeout" /\ lastOp.res = "Ok"
  /\ battle[1].state = "Finished" /\ battle[1].turn_number >= 1
  /\ battle[1].last_action_ts >= 1
  /\ now = battle[1].last_action_ts + battle[1].inactivity_timeout + 1
  /\ battle[1].winner = Other(battle[1], SideToMove(battle[1]))
  /\ battle[1].player1_health > 0 /\ battle[1].player2_health > 0

\* C13: under SpecClockFair (the clock keeps running, the forfeit is
\* eventually called) every Active battle eventually becomes Finished.  Once
\* now > last_action_ts + inactivity_timeout on an Active battle the forfeit
\* would succeed, whatever the pool holds, and it stays so until the battle
\* changes.
C13_TimeoutLiveness ==
  /\ (battle[1].state = "Active") ~> (battle[1].state = "Finished")
  /\ []((battle[1].state = "Active"
          /\ now > battle[1].last_action_ts + battle[1].inactivity_timeout)
         => forfeit_by_timeout(battle[1], now).res = "Ok")
  /\ [][(/\ battle[1].state = "Active"
         /\ now > battle[1].last_action_ts + battle[1].inactivity_timeout
         /\ battle'[1] = battle[1])
        => forfeit_by_timeout(battle'[1], now').res = "Ok"]_vars

\* a forfeiture that ended a battle whose pool could not pay for another turn
C13_Witness ==
  /\ lastOp.op = "forfeit_by_timeout" /\ lastOp.res = "Ok"
  /\ battle[1].state = "Finished" /\ battle[1].turn_number >= 1
  /\ pool.total_available < MIN_ENTROPY_PER_TURN

\* the signer's and the opponent's health in battle bt
HealthOf(bt, who) == IF who = bt.player1 THEN bt.player1_health ELSE bt.player2_health

\* C14: both healths of a battle lie in [0, 100] and no step raises one.  A
\* turn takes damage_dealt from the defender and the reflected, counter and
\* self damage from the attacker; a loss of at least the remaining health
\* leaves exactly 0, a smaller one the exact difference.
C14_HealthBoundedAndSaturating ==
  /\ [](\A b \in BattleIds : battle[b].state # "NoAccount" =>
          LET bt == battle[b]
          IN /\ bt.player1_health \in 0..100
             /\ bt.player2_health \in 0..100
             /\ bt.state = "Active" =>
                  \A t \in {SideToMove(bt)} \X Stances \X BOOLEAN :
                    LET r == TurnOn(b, bt, t)
                        a == t[1]
                        d == Other(bt, a)
                        fd == r.damage_dealt
                        refl == IF a = bt.player1 THEN r.battle.player1_reflection
                                ELSE r.battle.player2_reflection
                        def_stance == IF a = bt.player1 THEN bt.player2_stance
                                      ELSE bt.player1_stance
                        side == (fd * refl) \div 100
                                + (IF def_stance = "Counter" THEN (fd * 4000) \div 10000 ELSE 0)
                                + (IF t[2] = "Berserker" THEN (fd * 2500) \div 10000 ELSE 0)
                    IN r.res = "Ok" =>
                         /\ HealthOf(r.battle, d) =
                              (IF fd >= HealthOf(bt, d) THEN 0 ELSE HealthOf(bt, d) - fd)
                         /\ HealthOf(r.battle, a) =
                              (IF side >= HealthOf(bt, a) THEN 0 ELSE HealthOf(bt, a) - side))
  /\ [][\A b \in BattleIds : battle[b].state # "NoAccount" =>
          /\ battle'[b].player1_health <= battle[b].player1_health
          /\ battle'[b].player2_health <= battle[b].player2_health]_vars

\* a hit of more than 100, hence more than the defender had left, has ended
\* the battle with the defender at exactly 0
C14_Witness ==
  /\ lastOp.op = "execute_turn" /\ lastOp.res = "Ok" /\ lastOp.damage > 100
  /\ battle[1].state = "Finished"
  /\ HealthOf(battle[1], Other(battle[1], lastOp.caller)) = 0

\* C15: every character's combo_count is at most MAX_COMBO_STACK (5), so the
\* combo multiplier FP_SCALE + 150000 * combo_count is at most 1.75x; a turn
\* raises the attacker's combo_count by at most one, and not at all from 5,
\* and without special its damage_dealt is at most 1.75 times the base damage
\* under the two stance multipliers.
C15_ComboCapped ==
  /\ [](\A p \in {P1, P2} :
          /\ character[p].combo_count \in 0..MAX_COMBO_STACK
          /\ FP_SCALE + 150000 * character[p].combo_count <= 1750000)
  /\ [](\A b \in BattleIds : battle[b].state = "Active" =>
          \A t \in {SideToMove(battle[b])} \X Stances \X {FALSE} :
            LET bt == battle[b]
                r == TurnOn(b, bt, t)
                a == t[1]
                base_u128 == r.draws[1].val + 2 * (progression[a].level - 1)
                def_stance == IF a = bt.player1 THEN bt.player2_stance ELSE bt.player1_stance
                m == stance_multipliers(t[2], def_stance)
            IN r.res = "Ok" =>
                 /\ r.att.combo_count <= MAX_COMBO_STACK
                 /\ r.att.combo_count <= character[a].combo_count + 1
                 /\ r.damage_dealt * 1000000
                      <= base_u128 * 175 * (m.att_fp \div 10000) * (m.def_fp \div 10000))
  /\ [][\A p \in {P1, P2} : character'[p].combo_count <= character[p].combo_count + 1]_vars

\* player 1 has just repeated its base draw with five stacks already held: the
\* seventh equal draw of the streak
C15_Witness ==
  /\ lastOp.op = "execute_turn" /\ lastOp.res = "Ok" /\ lastOp.caller = P1
  /\ character[P1].combo_count = MAX_COMBO_STACK
  /\ character[P1].last_damage = lastOp.draws[1].val
  /\ battle[1].turn_number >= 13

\* the accounts and the record of issued indices, which a failed turn leaves
TurnAccounts == <<pool, battle, offer, character, progression, issued>>

\* C16: the special is usable iff the attacker's special_cooldown is 0.  For
\* the side to move on an Active battle, in any stance, whenever the turn
\* without special would succeed: with use_special it fails with
\* SpecialOnCooldown when the cooldown is above 0, and when it is 0 it succeeds
\* and applies the class special (Warrior, Assassin: three times the damage;
\* Trickster: twice; Mage: 5 more damage over 3 more turns on the defender;
\* Tank: 50 more reflection for the caster).  A turn refused with
\* SpecialOnCooldown changes no account.
C16_SpecialIffCooldownZero ==
  /\ [](\A b \in BattleIds : battle[b].state = "Active" =>
          \A st \in Stances :
            LET bt == battle[b]
                a == SideToMove(bt)
                cls == character[a].base_class
                rp == TurnOn(b, bt, <<a, st, FALSE>>)
                rs == TurnOn(b, bt, <<a, st, TRUE>>)
                p1 == a = bt.player1
            IN /\ rs.res = "Ok" => character[a].special_cooldown = 0
               /\ rs.res = "SpecialOnCooldown" => character[a].special_cooldown > 0
               /\ rp.res = "Ok" =>
                    /\ character[a].special_cooldown > 0 => rs.res = "SpecialOnCooldown"
                    /\ character[a].special_cooldown = 0 =>
                         /\ rs.res = "Ok"
                         /\ rs.att.special_cooldown > 0
                         /\ cls \in {"Warrior", "Assassin"} =>
                              /\ rs.damage_dealt >= 3 * rp.damage_dealt
                              /\ rs.damage_dealt <= 3 * rp.damage_dealt + 2
                         /\ cls = "Trickster" =>
                              /\ rs.damage_dealt >= 2 * rp.damage_dealt
                              /\ rs.damage_dealt <= 2 * rp.damage_dealt + 1
                         /\ cls = "Mage" =>
                              /\ rs.damage_dealt = rp.damage_dealt
                              /\ rs.battle.player1_dot_damage =
                                   bt.player1_dot_damage + (IF p1 THEN 0 ELSE 5)
                              /\ rs.battle.player2_dot_damage =
                                   bt.player2_dot_damage + (IF p1 THEN 5 ELSE 0)
                              /\ rs.battle.player1_dot_turns =
                                   bt.player1_dot_turns + (IF p1 THEN 0 ELSE 3)
                              /\ rs.battle.player2_dot_turns =
                                   bt.player2_dot_turns + (IF p1 THEN 3 ELSE 0)
                         /\ cls = "Tank" =>
                              /\ rs.damage_dealt = rp.damage_dealt
                              /\ rs.battle.player1_reflection =
                                   bt.player1_reflection + (IF p1 THEN 50 ELSE 0)
                              /\ rs.battle.player2_reflection =
                                   bt.player2_reflection + (IF p1 THEN 0 ELSE 50))
  /\ [][(lastOp'.op = "execute_turn" /\ lastOp'.res = "SpecialOnCooldown") =>
          UNCHANGED TurnAccounts]_vars
  /\ [][(lastOp'.op = "execute_turn" /\ lastOp'.res = "Ok" /\ lastOp'.special) =>
          character[lastOp'.caller].special_cooldown = 0]_vars

\* the side to move, still on the cooldown of a special it used earlier in the
\* battle, has just been refused another
C16_Witness ==
  /\ lastOp.op = "execute_turn" /\ lastOp.res = "SpecialOnCooldown"
  /\ battle[1].state = "Active" /\ battle[1].turn_number >= 2
  /\ character[SideToMove(battle[1])].special_cooldown > 0

\* the cooldown each class re-arms to
ClassCooldown(cls) ==
  CASE cls = "Warrior" -> 3
    [] cls = "Assassin" -> 4
    [] cls = "Mage" -> 3
    [] cls = "Tank" -> 4
    [] cls = "Trickster" -> 2

\* C17 as stated: once a turn that used the special has completed, the
\* attacker holds the cooldown of its class (3, 4, 3, 4, 2).
C17_CooldownIsClassValue ==
  \A b \in BattleIds : battle[b].state = "Active" =>
    \A st \in Stances :
      LET a == SideToMove(battle[b])
          rs == TurnOn(b, battle[b], <<a, st, TRUE>>)
      IN rs.res = "Ok" => rs.att.special_cooldown = ClassCooldown(character[a].base_class)

\* C17 amended: the special re-arms the cooldown to the value of the class
\* and the cooldown tick that ends the same turn takes one off, so once the turn
\* has completed the attacker holds that value less one (Warrior 2, Assassin
\* 3, Mage 2, Tank 3, Trickster 1), whether or not the turn ended the battle.
C17_CooldownIsClassValueLessOne ==
  /\ [](\A b \in BattleIds : battle[b].state = "Active" =>
          \A st \in Stances :
            LET a == SideToMove(battle[b])
                rs == TurnOn(b, battle[b], <<a, st, TRUE>>)
            IN rs.res = "Ok" =>
                 rs.att.special_cooldown = ClassCooldown(character[a].base_class) - 1)
  /\ [][(lastOp'.op = "execute_turn" /\ lastOp'.res = "Ok" /\ lastOp'.special) =>
          character'[lastOp'.caller].special_cooldown =
            ClassCooldown(character[lastOp'.caller].base_class) - 1]_vars

\* player 2 has used its special in a turn that left the battle Active
C17_Witness ==
  /\ lastOp.op = "execute_turn" /\ lastOp.res = "Ok" /\ lastOp.special
  /\ lastOp.caller = P2 /\ battle[1].state = "Active"
  /\ character[P2].special_cooldown = ClassCooldown(character[P2].base_class) - 1

\* levels and flat defenses given to the accounts of a turn, next to the ones
\* the accounts hold
TryLevels == {2, 3}
TryDefenses == {5, 20}

\* C18: a turn with no crit, no combo, no special, no dodge and both stances
\* Balanced deals max(0, base_draw + 2 * (attacker_level - 1) -
\* defender_defense), and the defender's health drops by exactly that,
\* saturating at 0.  Every character the program creates has defense 0 and
\* every progression starts at level 1, so the handler is also applied to the
\* accounts of the state with the level and the defense set to other values
\* (base draw 10, level 1, defense 5 gives 5).
C18_PlainDamage ==
  /\ [](\A b \in BattleIds : battle[b].state = "Active" =>
          LET bt == battle[b]
              a == SideToMove(bt)
              d == Other(bt, a)
          IN (bt.player1_stance = "Balanced" /\ bt.player2_stance = "Balanced") =>
               \A lv \in {progression[a].level} \cup TryLevels,
                  df \in {character[d].defense} \cup TryDefenses :
                 LET r == execute_turn(pool, bt, character[a],
                                       [character[d] EXCEPT !.defense = df],
                                       [progression[a] EXCEPT !.level = lv], progression[d],
                                       a, "Balanced", FALSE, now)
                     base == r.draws[1].val
                     plain == Max(0, base + 2 * (lv - 1) - df)
                 IN (/\ r.res = "Ok"
                     /\ ~r.is_crit
                     /\ r.att.combo_count = 0
                     /\ r.draws[3].val >= character[d].dodge_bps) =>
                      /\ r.damage_dealt = plain
                      /\ (base = 10 /\ lv = 1 /\ df = 5) => r.damage_dealt = 5
                      /\ HealthOf(r.battle, d) = SatSub(HealthOf(bt, d), plain)
                      /\ HealthOf(r.battle, a) = HealthOf(bt, a))
  /\ [][(/\ lastOp'.op = "execute_turn" /\ lastOp'.res = "Ok" /\ ~lastOp'.special
         /\ battle'[lastOp'.b].player1_stance = "Balanced"
         /\ battle'[lastOp'.b].player2_stance = "Balanced"
         /\ lastOp'.draws[2].val >= character[lastOp'.caller].crit_bps
         /\ character'[lastOp'.caller].combo_count = 0) =>
          LET b == lastOp'.b
              a == lastOp'.caller
              d == Other(battle[b], a)
              plain == Max(0, lastOp'.draws[1].val + 2 * (progression[a].level - 1)
                                - character[d].defense)
          IN /\ lastOp'.damage = plain
             /\ HealthOf(battle'[b], d) = SatSub(HealthOf(battle[b], d), plain)]_vars

\* a Balanced turn against a Balanced defender, without crit, combo or
\* special, has dealt its base draw of 10
C18_Witness ==
  /\ lastOp.op = "execute_turn" /\ lastOp.res = "Ok" /\ ~lastOp.special
  /\ battle[1].player1_stance = "Balanced" /\ battle[1].player2_stance = "Balanced"
  /\ lastOp.draws[2].val >= character[lastOp.caller].crit_bps
  /\ character[lastOp.caller].combo_count = 0
  /\ lastOp.draws[1].val = 10 /\ lastOp.damage = 10
  /\ battle[1].turn_number >= 2

\* the winner the claim names for healths h1, h2 of players p1, p2
StrictlyHealthier(p1, h1, p2, h2) == IF h1 > h2 THEN p1 ELSE IF h2 > h1 THEN p2 ELSE NoKey

\* C19: a turn sets state = Finished iff a health is 0 once its damage is
\* applied; the winner is then the participant with strictly greater health
\* and is unset when the healths are equal, which they are only at 0 and 0;
\* otherwise the battle stays Active, the turn passes and turn_number rises by
\* one.  While a battle is Active both healths are above 0 and winner is unset.
C19_FinishedIffAHealthIsZero ==
  /\ [](\A b \in BattleIds : battle[b].state = "Active" =>
          LET bt == battle[b]
          IN /\ bt.player1_health > 0 /\ bt.player2_health > 0 /\ bt.winner = NoKey
             /\ \A t \in {SideToMove(bt)} \X Stances \X BOOLEAN :
                  LET r == TurnOn(b, bt, t)
                      h1 == r.battle.player1_health
                      h2 == r.battle.player2_health
                  IN r.res = "Ok" =>
                       /\ r.battle.state \in {"Active", "Finished"}
                       /\ r.battle.state = "Finished" <=> (h1 = 0 \/ h2 = 0)
                       /\ r.battle.state = "Finished" =>
                            /\ r.battle.winner = StrictlyHealthier(bt.player1, h1, bt.player2, h2)
                            /\ r.battle.winner = NoKey <=> (h1 = 0 /\ h2 = 0)
                            /\ r.battle.current_turn = bt.current_turn
                            /\ r.battle.turn_number = bt.turn_number
                       /\ r.battle.state = "Active" =>
                            /\ r.battle.winner = NoKey
                            /\ r.battle.current_turn = (IF bt.current_turn = 1 THEN 2 ELSE 1)
                            /\ r.battle.turn_number = bt.turn_number + 1)
  /\ [][(lastOp'.op = "execute_turn" /\ lastOp'.res = "Ok") =>
          LET bt == battle'[lastOp'.b]
          IN /\ bt.state = "Finished" <=> (bt.player1_health = 0 \/ bt.player2_health = 0)
             /\ bt.winner = (IF bt.state = "Finished"
                               THEN StrictlyHealthier(bt.player1, bt.player1_health,
                                                      bt.player2, bt.player2_health)
                               ELSE NoKey)]_vars

\* a turn has ended the battle with both healths at 0 and no winner
C19_Witness ==
  /\ lastOp.op = "execute_turn" /\ lastOp.res = "Ok"
  /\ battle[1].state = "Finished" /\ battle[1].winner = NoKey
  /\ battle[1].player1_health = 0 /\ battle[1].player2_health = 0

\* all the XP a progression has earned: xp plus the thresholds of the levels
\* it has passed
RECURSIVE PassedXp(_)
PassedXp(level) == IF level <= 1 THEN 0 ELSE next_level_xp(level - 1) + PassedXp(level - 1)

EarnedXp(prog) == prog.xp + PassedXp(prog.level)

\* C20: a turn that ends the battle with a winner gives 100 XP to the
\* winner's progression and leaves the loser's as it was, whichever of the two
\* attacked; a turn that ends it in a draw gives 25 XP to both.
C20_XpToTheWinner ==
  [][(lastOp'.op = "execute_turn" /\ lastOp'.res = "Ok"
        /\ battle'[lastOp'.b].state = "Finished") =>
       LET bt == battle'[lastOp'.b]
           w == bt.winner
           l == Other(bt, w)
       IN IF w # NoKey
            THEN /\ EarnedXp(progression'[w]) = EarnedXp(progression[w]) + 100
                 /\ progression'[l] = progression[l]
            ELSE /\ EarnedXp(progression'[P1]) = EarnedXp(progression[P1]) + 25
                 /\ EarnedXp(progression'[P2]) = EarnedXp(progression[P2]) + 25]_vars

\* the pool once another requester has taken k more entries from it
RECURSIVE Drained(_, _)
Drained(p, k) ==
  IF k = 0 THEN p
  ELSE LET d == consume_mixed_u64_return_index(p, Eve, TagWild, 0, 0, 9999)
       IN IF d.res = "Ok" THEN Drained(d.pool, k - 1) ELSE p

\* C21: the entropy cost of a turn is fixed.  For the side to move on an
\* Active battle, in any stance, with or without special, on the pool as it
\* is and once up to four more entries have been taken from it: with fewer
\* than 4 entries available the turn fails with NoEntropyAvailable, and a turn
\* that succeeds has taken exactly 4 draws (base, crit, dodge, wildcard) and
\* total_available is 4 lower, whether it crit, used the special or ended the
\* battle.  A committed turn lowers total_available by exactly 4 and a turn
\* refused for lack of entropy leaves the pool as it was.
C21_TurnCostsFourEntries ==
  /\ [](\A b \in BattleIds : battle[b].state = "Active" =>
          \A k \in 0..MIN_ENTROPY_PER_TURN,
             t \in {SideToMove(battle[b])} \X Stances \X BOOLEAN :
            LET bt == battle[b]
                a == t[1]
                d == Other(bt, a)
                p == Drained(pool, k)
                r == execute_turn(p, bt, character[a], character[d],
                                  progression[a], progression[d], a, t[2], t[3], now)
            IN /\ p.total_available < MIN_ENTROPY_PER_TURN => r.res = "NoEntropyAvailable"
               /\ r.res = "Ok" =>
                    /\ p.total_available >= MIN_ENTROPY_PER_TURN
                    /\ Len(r.draws) = 4
                    /\ r.draws[1].min = character[a].base_damage_min
                    /\ r.draws[1].max = character[a].base_damage_max
                    /\ \A i \in 2..4 : r.draws[i].min = 0 /\ r.draws[i].max = 9999
                    /\ r.pool.total_available = p.total_available - 4)
  /\ [][(lastOp'.op = "execute_turn" /\ lastOp'.res = "Ok") =>
          /\ pool.total_available >= MIN_ENTROPY_PER_TURN
          /\ Len(lastOp'.draws) = 4
          /\ pool'.total_available = pool.total_available - 4]_vars
  /\ [][(lastOp'.op = "execute_turn" /\ lastOp'.res = "NoEntropyAvailable") =>
          pool' = pool]_vars

\* a turn that used the special and ended the battle has taken its four
\* draws and left the pool empty
C21_Witness ==
  /\ lastOp.op = "execute_turn" /\ lastOp.res = "Ok" /\ lastOp.special
  /\ battle[1].state = "Finished"
  /\ Len(lastOp.draws) = 4
  /\ pool.total_available = 0

\* C22: the two participants act in strict alternation.  A committed turn
\* was signed by the side current_turn named; when it leaves the battle
\* Active, current_turn names the other participant and turn_number is one
\* higher; when it ends the battle, current_turn and turn_number are as they
\* were.  No other step changes current_turn or turn_number of a battle, so
\* two successive turns of a battle are never by the same participant, and
\* turn_number never decreases.
C22_StrictAlternation ==
  /\ [][(lastOp'.op = "execute_turn" /\ lastOp'.res = "Ok") =>
          LET b == lastOp'.b
              bt == battle[b]
              bt1 == battle'[b]
              a == lastOp'.caller
          IN /\ bt.state = "Active"
             /\ a = SideToMove(bt)
             /\ bt1.state = "Active" =>
                  /\ SideToMove(bt1) = Other(bt, a)
                  /\ bt1.current_turn # bt.current_turn
                  /\ bt1.turn_number = bt.turn_number + 1
             /\ bt1.state # "Active" =>
                  /\ bt1.state = "Finished"
                  /\ bt1.current_turn = bt.current_turn
                  /\ bt1.turn_number = bt.turn_number]_vars
  /\ [][\A b \in BattleIds : battle[b].state # "NoAccount" =>
          /\ battle'[b].turn_number >= battle[b].turn_number
          /\ (\/ battle'[b].turn_number # battle[b].turn_number
              \/ battle'[b].current_turn # battle[b].current_turn) =>
               /\ lastOp'.op = "execute_turn" /\ lastOp'.res = "Ok" /\ lastOp'.b = b
               /\ battle'[b].state = "Active"]_vars
  /\ [](\A b \in BattleIds : battle[b].state # "NoAccount" =>
          battle[b].current_turn \in {1, 2})

\* player 2 has taken the fourth turn or a later one and the turn is back
\* with player 1
C22_Witness ==
  /\ lastOp.op = "execute_turn" /\ lastOp.res = "Ok" /\ lastOp.caller = P2
  /\ battle[1].state = "Active" /\ battle[1].turn_number >= 4
  /\ SideToMove(battle[1]) = P1

\* C23 as stated: whatever multipliers a turn combines, its damage before the
\* defense subtraction is at most 10 times its level-adjusted base damage.
\* Every character has defense 0 and no turn is dodged, so damage_dealt is the
\* damage before the subtraction.
C23_TenTimesBaseAtMost ==
  /\ [](\A b \in BattleIds : battle[b].state = "Active" =>
          \A t \in {SideToMove(battle[b])} \X Stances \X BOOLEAN :
            LET bt == battle[b]
                a == t[1]
                d == Other(bt, a)
                r == TurnOn(b, bt, t)
            IN (r.res = "Ok" /\ character[d].defense = 0
                  /\ r.draws[3].val >= character[d].dodge_bps) =>
                 r.damage_dealt
                   <= 10 * base_with_level(r.draws[1].val, progression[a].level))
  /\ [][(lastOp'.op = "execute_turn" /\ lastOp'.res = "Ok") =>
          LET a == lastOp'.caller
              d == Other(battle[lastOp'.b], a)
          IN (character[d].defense = 0 /\ lastOp'.draws[3].val >= character[d].dodge_bps) =>
               lastOp'.damage
                 <= 10 * base_with_level(lastOp'.draws[1].val, progression[a].level)]_vars

\* the damage-over-time turn counter of a participant of battle bt
DotTurnsOf(bt, who) == IF who = bt.player1 THEN bt.player1_dot_turns ELSE bt.player2_dot_turns

\* C24 as stated: the special of a Mage puts damage-over-time on the
\* defender.  In every committed turn of the battle that starts while a
\* participant has dot_turns above 0, that participant loses 5 more health
\* (saturating at 0) and its dot_turns goes down by one, 3 being added when
\* the turn is itself a Mage special against it.
C24_DotTicksAndCountsDown ==
  [][(lastOp'.op = "execute_turn" /\ lastOp'.res = "Ok") =>
       LET b == lastOp'.b
           bt == battle[b]
           a == lastOp'.caller
       IN \A v \in {bt.player1, bt.player2} :
            DotTurnsOf(bt, v) > 0 =>
              /\ DotTurnsOf(battle'[b], v) =
                   DotTurnsOf(bt, v) - 1
                     + (IF lastOp'.special /\ v # a /\ character[a].base_class = "Mage"
                          THEN 3 ELSE 0)
              /\ HealthOf(battle'[b], v) <= SatSub(HealthOf(bt, v), 5)]_vars

\* the reflection accumulator of a participant of battle bt
ReflectionOf(bt, who) == IF who = bt.player1 THEN bt.player1_reflection ELSE bt.player2_reflection

\* C25 as stated: the 50 of reflection a Tank gains from its special lasts
\* for the cooldown of the special.  A participant whose special_cooldown is
\* back at 0 has its reflection accumulator back at 0, the value it had when
\* the battle was created, and no accumulator ever exceeds 50.
C25_ReflectionExpires ==
  \A b \in BattleIds : battle[b].state # "NoAccount" =>
    \A p \in {battle[b].player1, battle[b].player2} :
      /\ ReflectionOf(battle[b], p) <= 50
      /\ character[p].special_cooldown = 0 => ReflectionOf(battle[b], p) = 0

\* C26 as stated: reflection protects its caster.  In a turn of the side to
\* move with final damage D, the reflected damage the attacker suffers is
\* floor(D * R / 100) with R the reflection accumulator of the defender, next
\* to the counter and self damage of the stances; the attacker's own
\* accumulator takes nothing from its health.
C26_ReflectionHurtsTheAttackerOfItsCaster ==
  \A b \in BattleIds : battle[b].state = "Active" =>
    \A t \in {SideToMove(battle[b])} \X Stances \X BOOLEAN :
      LET bt == battle[b]
          a == t[1]
          d == Other(bt, a)
          r == TurnOn(b, bt, t)
          D == r.damage_dealt
          m == stance_multipliers(t[2], IF a = bt.player1 THEN bt.player2_stance
                                        ELSE bt.player1_stance)
          reflected == (D * ReflectionOf(r.battle, d)) \div 100
          counter == (D * m.counter_bps) \div 10000
          selfd == (D * m.self_bps) \div 10000
      IN r.res = "Ok" =>
           HealthOf(r.battle, a) = Max(0, HealthOf(bt, a) - reflected - counter - selfd)

\* the miss counter of a participant's side of battle bt
MissCountOf(bt, who) == IF who = bt.player1 THEN bt.player1_miss_count ELSE bt.player2_miss_count

\* dodge chances given to the defender's character of a turn, next to the one
\* it holds: no instruction assigns dodge_bps, so every character holds 0
TryDodges == {5000, 10000}

AfterSideEffects(h, D, R, att_stance, def_stance) ==
  Max(0, h - ((D * R) \div 100)
           - (IF def_stance = "Counter" THEN (D * 4000) \div 10000 ELSE 0)
           - (IF att_stance = "Berserker" THEN (D * 2500) \div 10000 ELSE 0))

\* C28: in a turn with final damage D the attacker's health becomes
\* max(0, h - floor(D * reflection / 100) - floor(D * 4000 / 10000) if the
\* defender stands in Counter - floor(D * 2500 / 10000) if the attacker
\* stands in Berserker), reflection being the accumulator execute_turn reads
\* once the special has been applied.  Every term is taken from the same D,
\* and the formula holds as well when D brings the defender to 0.
C28_SideEffectsFromTheSameDamage ==
  /\ [](\A b \in BattleIds : battle[b].state = "Active" =>
          \A t \in {SideToMove(battle[b])} \X Stances \X BOOLEAN :
            LET bt == battle[b]
                a == t[1]
                d == Other(bt, a)
                r == TurnOn(b, bt, t)
                h1 == AfterSideEffects(HealthOf(bt, a), r.damage_dealt,
                                       ReflectionOf(r.battle, a), t[2],
                                       IF a = bt.player1 THEN bt.player2_stance
                                       ELSE bt.player1_stance)
            IN r.res = "Ok" =>
                 /\ HealthOf(r.battle, a) = h1
                 /\ r.damage_dealt >= HealthOf(bt, d) =>
                      /\ HealthOf(r.battle, d) = 0
                      /\ r.battle.state = "Finished"
                      /\ HealthOf(r.battle, a) = h1)
  /\ [][(lastOp'.op = "execute_turn" /\ lastOp'.res = "Ok") =>
          LET b == lastOp'.b
              a == lastOp'.caller
              d == Other(battle[b], a)
          IN HealthOf(battle'[b], a) =
               AfterSideEffects(HealthOf(battle[b], a), lastOp'.damage,
                                ReflectionOf(battle'[b], a),
                                IF a = battle[b].player1 THEN battle'[b].player1_stance
                                ELSE battle'[b].player2_stance,
                                IF a = battle[b].player1 THEN battle[b].player2_stance
                                ELSE battle[b].player1_stance)]_vars

\* a Berserker turn has brought a defender standing in Counter to 0 and its
\* side effects, 40% and 25% of the same damage, have brought the attacker to
\* 0 as well
C28_Witness ==
  /\ lastOp.op = "execute_turn" /\ lastOp.res = "Ok" /\ lastOp.damage > 0
  /\ battle[1].state = "Finished"
  /\ HealthOf(battle[1], Other(battle[1], lastOp.caller)) = 0
  /\ HealthOf(battle[1], lastOp.caller) = 0
  /\ (IF lastOp.caller = P1 THEN battle[1].player1_stance ELSE battle[1].player2_stance)
       = "Berserker"
  /\ (IF lastOp.caller = P1 THEN battle[1].player2_stance ELSE battle[1].player1_stance)
       = "Counter"

\* C29 as stated: combo_count and special_cooldown are per-battle counters.
\* When approve_challenger creates a battle, the characters of its two
\* participants hold combo_count = 0 and special_cooldown = 0, whatever an
\* earlier battle of the same characters left in them.
C29_BattleStartsWithFreshCounters ==
  [][(lastOp'.op = "approve_challenger" /\ lastOp'.res = "Ok") =>
       \A p \in {battle'[lastOp'.b].player1, battle'[lastOp'.b].player2} :
         /\ character'[p].combo_count = 0
         /\ character'[p].special_cooldown = 0]_vars

\* XP a progression has brought along from earlier battles, given to the
\* progressions of a turn next to the XP they hold: three battles ended in a
\* draw leave 75 at any level
TryXps == {75}

\* C30 as stated: the level of a progression never decreases and is the one
\* its XP gives on the curve 100 * level^2.  After a turn that ends the
\* battle, every progression the turn has changed (the winner's side, or both
\* on a draw) holds xp < next_level_xp(level), whatever XP below the threshold
\* it held before.
C30_LevelFollowsXp ==
  /\ [](\A b \in BattleIds : battle[b].state = "Active" =>
          \A t \in {SideToMove(battle[b])} \X Stances \X BOOLEAN,
             x \in {0} \cup TryXps :
            LET bt == battle[b]
                a == t[1]
                d == Other(bt, a)
                pa == [progression[a] EXCEPT !.xp = Max(@, x)]
                pd == [progression[d] EXCEPT !.xp = Max(@, x)]
                r == execute_turn(pool, bt, character[a], character[d], pa, pd,
                                  a, t[2], t[3], now)
            IN (/\ r.res = "Ok" /\ r.battle.state = "Finished"
                /\ pa.xp < next_level_xp(pa.level)
                /\ pd.xp < next_level_xp(pd.level)) =>
                 /\ r.aprog.level >= pa.level
                 /\ r.dprog.level >= pd.level
                 /\ r.aprog # pa => r.aprog.xp < next_level_xp(r.aprog.level)
                 /\ r.dprog # pd => r.dprog.xp < next_level_xp(r.dprog.level))
  /\ [][\A p \in {P1, P2} :
          /\ progression'[p].level >= progression[p].level
          /\ progression'[p] # progression[p] =>
               progression'[p].xp < next_level_xp(progression'[p].level)]_vars

\* C31: a successful approve_challenger takes exactly one entropy entry and
\* leaves an Active battle with both healths 100, turn_number 0, current_turn
\* 1 when the draw is 0 and 2 when it is 1, last_entropy_index the index of
\* that draw and last_action_ts the time of the call, whatever that time is;
\* the offer is inactive and the request Approved, and on such an offer
\* approve_challenger fails for every caller.
C31_ApprovalCreatesActiveBattle ==
  /\ [](\A b \in BattleIds, caller \in {P1, P2, Eve}, c \in ClockValues :
          LET r == approve_challenger(offer[b], pool, caller, c)
          IN /\ r.res = "Ok" =>
                  /\ offer[b].is_active /\ offer[b].status = "Pending"
                  /\ caller = offer[b].creator
                  /\ Len(r.draws) = 1
                  /\ r.draws[1].val \in {0, 1}
                  /\ r.pool.total_available = pool.total_available - 1
                  /\ r.battle.state = "Active"
                  /\ r.battle.player1 = offer[b].creator
                  /\ r.battle.player2 = offer[b].challenger
                  /\ r.battle.player1_health = 100 /\ r.battle.player2_health = 100
                  /\ r.battle.turn_number = 0
                  /\ r.battle.current_turn = (IF r.draws[1].val = 0 THEN 1 ELSE 2)
                  /\ r.battle.last_entropy_index = r.draws[1].index
                  /\ r.battle.last_action_ts = c
                  /\ r.battle.winner = NoKey
                  /\ ~r.offer.is_active /\ r.offer.status = "Approved"
             /\ (~offer[b].is_active \/ offer[b].status = "Approved") =>
                  r.res \in {"OfferNotActive", "InvalidRequestState"})
  /\ [][(lastOp'.op = "approve_challenger" /\ lastOp'.res = "Ok") =>
          LET b == lastOp'.b
              bt == battle'[b]
              dr == lastOp'.draws
          IN /\ Len(dr) = 1
             /\ pool'.total_available = pool.total_available - 1
             /\ battle[b].state = "NoAccount"
             /\ bt.state = "Active"
             /\ bt.player1_health = 100 /\ bt.player2_health = 100
             /\ bt.turn_number = 0
             /\ bt.current_turn = (IF dr[1].val = 0 THEN 1 ELSE 2)
             /\ bt.last_entropy_index = dr[1].index
             /\ bt.last_action_ts = now
             /\ offer[b].is_active /\ ~offer'[b].is_active
             /\ offer'[b].status = "Approved"]_vars
  /\ [](\A b \in BattleIds : battle[b].state # "NoAccount" <=> ~offer[b].is_active)

\* the second battle has been created with player 2 drawn as first mover,
\* after a first one where the draw chose player 1; both approved offers
\* refuse another approval
C31_Witness ==
  /\ lastOp.op = "approve_challenger" /\ lastOp.res = "Ok" /\ lastOp.b = 2
  /\ lastOp.draws[1].val = 1 /\ battle[2].current_turn = 2
  /\ battle[2].state = "Active" /\ battle[2].turn_number = 0
  /\ battle[1].state = "Active" /\ battle[1].turn_number = 0 /\ battle[1].current_turn = 1
  /\ approve_challenger(offer[1], pool, P1, now).res = "OfferNotActive"
  /\ approve_challenger(offer[2], pool, P1, now).res = "OfferNotActive"

\* C32 as stated: battle creation is never blocked by the index check.  With
\* an active offer, a pending request, the offer's creator as caller and at
\* least one entry available in the pool, approve_challenger succeeds; the
\* first draw of a fresh pool refilled from start_index 0 is no exception.
C32_ApprovalNeverBlocked ==
  \A b \in BattleIds :
    (/\ offer[b].is_active /\ offer[b].status = "Pending"
     /\ pool.total_available >= 1
     /\ LiveSum(pool) >= 1) =>
      approve_challenger(offer[b], pool, offer[b].creator, now).res = "Ok"

\* C33 as stated: the defensive failure of consume is unreachable.  In every
\* pool the program reaches, as it is and once other requesters have taken up
\* to MaxIndex more entries from it, a draw with min <= max succeeds whenever
\* total_available is above 0.
C33_ScanFindsABatch ==
  \A k \in 0..MaxIndex :
    LET p == Drained(pool, k)
    IN p.total_available > 0 =>
         consume_mixed_u64_return_index(p, P1, TagBase, 0, 0, 9999).res # "NoEntropyAvailable"

\* C34 as stated: successive successful draws from the pool return strictly
\* increasing global indices over any sequence of refills and draws: every
\* index a committed approval or turn has drawn is above every index issued
\* before it and above the draws that precede it in the same instruction;
\* hence no turn fails with SeedReplay.
C34_DrawIndicesRise ==
  /\ [][IsDrawOp(lastOp') =>
          \A i \in 1..Len(lastOp'.draws) :
            /\ \A j \in issued : lastOp'.draws[i].index > j
            /\ \A h \in 1..(i - 1) : lastOp'.draws[i].index > lastOp'.draws[h].index]_vars
  /\ [][lastOp'.op = "execute_turn" => lastOp'.res # "SeedReplay"]_vars

\* C35 as stated: a critical hit never lowers damage.  For the side to move,
\* in any stance, with or without special, a turn in which the crit roll
\* triggers deals at least the damage of the same turn (same pool, hence same
\* draws, same accounts) taken by the same character with crit chance 0.
C35_CritNeverLowersDamage ==
  \A b \in BattleIds : battle[b].state = "Active" =>
    \A t \in {SideToMove(battle[b])} \X Stances \X BOOLEAN :
      LET bt == battle[b]
          a == t[1]
          d == Other(bt, a)
          r == TurnOn(b, bt, t)
          plain == execute_turn(pool, bt, [character[a] EXCEPT !.crit_bps = 0], character[d],
                                progression[a], progression[d], a, t[2], t[3], now)
      IN (r.res = "Ok" /\ r.is_crit) =>
           /\ plain.res = "Ok" /\ ~plain.is_crit
           /\ plain.draws = r.draws
           /\ r.damage_dealt >= plain.damage_dealt

\* ------------------------------------------------------------------------
\* Settlement of the stakes
\* ------------------------------------------------------------------------
\* fee_bps values a Config may hold (create_config stores any u16)
FeeBpsValues == {0, ConfigFeeBps, 10000, 12000}

\* what is left of the stakes of battle b, in escrow or paid out
StakesOf(f, b) ==
  f.offer_escrow[b] + f.request_escrow[b] + f.battle_escrow[b]
    + f.ata[P1] + f.ata[P2] + f.ata[Eve] + f.ata[Treasury]

C37_BetsOnlyOnOpenBattles ==
  /\ [](battle[1].state # "NoAccount" =>
          \A w \in Bettors, o \in Outcomes, st \in BetStakes :
            LET data == battle_data(battle[1], 1)
                r == place_single_bet(game_pool, single_bet[w], parlay_pool, tokens, data, 1, w, o, st)
                s == settle_single_pool(game_pool, data, o)
            IN /\ battle[1].state = "Finished" =>
                    /\ r.res # "Ok"
                    /\ (~single_bet[w].exists /\ st >= parlay_pool.min_stake) => r.res = "BattleClosed"
               /\ battle[1].state = "Active" => r.res # "BattleClosed"
               /\ s.res = "Ok" => battle[1].state = "Finished")
  /\ [][(lastOp'.op = "settle_single_pool" /\ lastOp'.res = "Ok") => battle[1].state = "Finished"]_vars

\* C38: a GamePool is settled at most once: settle_single_pool fails with
\* PoolAlreadySettled on a pool that is uninitialised or already settled,
\* whatever account is passed as the battle; once the pool is settled no
\* instruction changes it again (winning_outcome, snapshot_liquidity and
\* total_staked stay as they are, the snapshot being the total staked), and
\* every place_single_bet on it fails, with PoolAlreadySettled when the bet
\* account is new, the stake is large enough and the snapshot is not Finished
C38_PoolSettledOnce ==
  /\ [](\A acct \in BattleAccounts, o \in Outcomes :
          /\ (~game_pool.initialized \/ game_pool.is_settled) =>
               settle_single_pool(game_pool, account_data(acct), o).res = "PoolAlreadySettled"
          /\ game_pool.is_settled =>
               /\ game_pool.winning_outcome \in Outcomes
               /\ game_pool.snapshot_liquidity = game_pool.total_staked
               /\ \A w \in Bettors, st \in BetStakes :
                    LET data == account_data(acct)
                        snap == deserialize_battle_snapshot(data)
                        r == place_single_bet(game_pool, single_bet[w], parlay_pool, tokens,
                                              data, 1, w, o, st)
                    IN /\ r.res # "Ok"
                       /\ r.game_pool = game_pool
                       /\ (/\ ~single_bet[w].exists /\ st >= parlay_pool.min_stake
                           /\ snap.res = "Ok" /\ snap.state # StateFinished) =>
                            r.res = "PoolAlreadySettled")
  /\ [][game_pool.is_settled => game_pool' = game_pool]_vars

\* a settled pool holding a stake, on which a further bet has just been
\* refused as PoolAlreadySettled
C38_Witness ==
  /\ game_pool.is_settled
  /\ game_pool.snapshot_liquidity > 0
  /\ lastOp.op = "place_single_bet"
  /\ lastOp.res = "PoolAlreadySettled"
  /\ settle_single_pool(game_pool, account_data("foreign"), 2).res = "PoolAlreadySettled"

\* C39: each SingleBet is claimed at most once: claim_single fails with
\* PoolNotSettled before the pool is settled and with AlreadyClaimed once
\* bet.claimed is true, whoever signs and whether restaking or not; every
\* successful claim leaves claimed = true; a losing bet is paid 0 and moves
\* no token; and a claimed bet is never changed again
C39_BetClaimedOnce ==
  /\ [](\A w \in Bettors, signer \in Bettors, restake \in BOOLEAN :
          LET bet == single_bet[w]
              r == claim_single(game_pool, bet, parlay_pool, restake_pos[signer], tokens,
                                signer, restake)
          IN bet.exists =>
               /\ ~game_pool.is_settled => r.res = "PoolNotSettled"
               /\ (game_pool.is_settled /\ bet.claimed) => r.res = "AlreadyClaimed"
               /\ r.res = "Ok" =>
                    /\ r.single_bet.claimed
                    /\ ~bet.claimed /\ game_pool.is_settled
                    /\ game_pool.winning_outcome # bet.chosen_outcome =>
                         (r.payout = 0 /\ r.tokens = tokens /\ r.parlay_pool = parlay_pool))
  /\ [][\A w \in Bettors : single_bet[w].claimed => single_bet'[w] = single_bet[w]]_vars

\* the winner's bet was claimed earlier, the loser's has just been claimed
\* for nothing, and neither can be claimed again
C39_Witness ==
  /\ single_bet[P2].claimed /\ single_bet[Eve].claimed
  /\ single_bet[P2].chosen_outcome = game_pool.winning_outcome
  /\ single_bet[Eve].chosen_outcome # game_pool.winning_outcome
  /\ tokens.ata[P2] + restake_pos[P2].share > BettorTokens
  /\ lastOp.op = "claim_single" /\ lastOp.res = "Ok" /\ lastOp.damage = 0
  /\ \A w \in Bettors :
       claim_single(game_pool, single_bet[w], parlay_pool, restake_pos[w], tokens, w, FALSE).res
         = "AlreadyClaimed"

\* C40: a RestakePosition pays out at most once: once closed = true every
\* further withdraw_restake on it fails, so the liquidity is debited for it
\* once and no more than its share is paid
C40_RestakePaidOnce ==
  \A h \in Bettors, w \in Bettors :
    restake_pos[h].closed =>
      withdraw_restake(restake_pos[h], parlay_pool, tokens, w).res # "Ok"

====
